---- MODULE Spec2Model ----
(***************************************************************************)
(* A model of the packed-pixel engine of leptonica: the boolean raster     *)
(* operations, pixel counting and masked painting of pix3.c, the           *)
(* error-diffusion dithering of grayquantlow.c and the sampled bilinear    *)
(* transform of bilinear.c.                                                *)
(*                                                                         *)
(* A 32-bit word (l_uint32) is represented by the set of its ON bit        *)
(* positions, position k having weight 2^k (0 = least significant bit,     *)
(* 31 = most significant bit).  The integers of TLC are 32-bit signed, so  *)
(* the numeric value of a word is only ever materialised bytewise.  A      *)
(* pixel value of depth d is likewise the set of its ON bits, a subset of  *)
(* 0..d-1.  On words, & is intersection, | is union, ^ is the symmetric    *)
(* difference, ~ is the complement in 0..31 and << drops the bits shifted  *)
(* beyond position 31.                                                     *)
(***************************************************************************)
EXTENDS Integers, Sequences, FiniteSets, TLC

VARIABLES
    pix,      \* the PIX objects: handle -> PIX record (NullPix for a free handle)
    last,     \* the call made on the PIX objects: its arguments, the objects before it, its results
    mem,      \* the arrays of a dithering pass: datas, bufs1, bufs2, datad
    dcfg,     \* the arguments of the dithering passes: w, h, wpls, the clips, the source as given
    dpc,      \* where the running dithering pass stands: the pass, row i, column j
    dout,     \* the destination of each dithering pass that has returned
    dstep,    \* the last pixel a dithering pass processed, with the arrays before it
    scan,     \* the call of pixBilinearSampled: its arguments, its position, its last step
    numa      \* the NUMA: its fields, the last call made on it, the values given to it

ditherVars == <<mem, dcfg, dpc, dout, dstep>>

vars == <<pix, last, mem, dcfg, dpc, dout, dstep, scan, numa>>

(***************************************************************************)
(* Words                                                                   *)
(***************************************************************************)
WordBits == 0..31

ZeroWord == {}
AllOnes == WordBits      \* 0xffffffff

WAnd(a, b) == a \cap b

\* a << n for 0 <= n <= 31, truncated to 32 bits
Shl(a, n) == {k + n : k \in {b \in a : b + n <= 31}}

\* a >> n for 0 <= n <= 31
Shr(a, n) == {k - n : k \in {b \in a : b >= n}}

Pow2(n) == IF n = 0 THEN 1
           ELSE IF n = 1 THEN 2
           ELSE IF n = 2 THEN 4
           ELSE IF n = 3 THEN 8
           ELSE IF n = 4 THEN 16
           ELSE IF n = 5 THEN 32
           ELSE IF n = 6 THEN 64
           ELSE 128

\* the integer value of the low byte of a word: word & 0xff as an index
LowByte(a) ==
    LET bit(k) == IF k \in a THEN Pow2(k) ELSE 0
    IN  bit(0) + bit(1) + bit(2) + bit(3) + bit(4) + bit(5) + bit(6) + bit(7)

\* the word holding the byte value v (0..255) in its low byte
RECURSIVE BitsOf(_, _)
BitsOf(v, k) == IF v = 0 THEN {}
                ELSE (IF v % 2 = 1 THEN {k} ELSE {}) \cup BitsOf(v \div 2, k + 1)

ByteWord(v) == BitsOf(v, 0)

\* C integer division, which truncates toward zero
CDiv(a, b) == IF a >= 0 THEN a \div b ELSE -((-a) \div b)

L_MAX(a, b) == IF a > b THEN a ELSE b
L_MIN(a, b) == IF a < b THEN a ELSE b

(***************************************************************************)
(* Packed lines.  A line is a function from word offsets to words; pixel n *)
(* of depth d lies in word (n * d) / 32, most significant pixel first.     *)
(***************************************************************************)
FieldShift(n, d) == 32 - d * ((n % (32 \div d)) + 1)

FieldWord(n, d) == n \div (32 \div d)

\* the d-bit pixel n of the line that starts at word offset base of data
GetField(data, base, n, d) ==
    LET s == FieldShift(n, d)
    IN  {k - s : k \in {b \in data[base + FieldWord(n, d)] : b >= s /\ b < s + d}}

\* data with the d-bit pixel n of the line at base set to the low d bits of val
SetField(data, base, n, d, val) ==
    LET s == FieldShift(n, d)
        i == base + FieldWord(n, d)
    IN  [data EXCEPT ![i] =
            {b \in data[i] : b < s \/ b >= s + d}
                \cup {k + s : k \in {v \in val : v < d}}]

GET_DATA_BIT(data, base, n) == GetField(data, base, n, 1) # {}

SET_DATA_BIT(data, base, n) == SetField(data, base, n, 1, {0})

GET_DATA_BYTE(data, base, n) == LowByte(GetField(data, base, n, 8))

SET_DATA_BYTE(data, base, n, v) == SetField(data, base, n, 8, ByteWord(v % 256))

GET_DATA_DIBIT(data, base, n) == LowByte(GetField(data, base, n, 2))

SET_DATA_DIBIT(data, base, n, v) == SetField(data, base, n, 2, ByteWord(v % 4))

GET_DATA_TWO_BYTES(data, base, n) ==
    LowByte(GetField(data, base, n, 16)) + 256 * LowByte(Shr(GetField(data, base, n, 16), 8))

GET_DATA_QBIT(data, base, n) == LowByte(GetField(data, base, n, 4))

SET_DATA_QBIT(data, base, n, v) == SetField(data, base, n, 4, ByteWord(v % 16))

(***************************************************************************)
(* PIX objects                                                             *)
(***************************************************************************)
NullPix == [w |-> 0, h |-> 0, d |-> 0, wpl |-> 0, data |-> <<>>]

\* no call made yet
NoCall == [op |-> "none", pixd |-> 0, pixs1 |-> 0, pixs2 |-> 0, x |-> 0, y |-> 0,
           val |-> {}, pre |-> <<>>, ret |-> 0, count |-> 0, reads |-> <<>>]

\* no step of the scan of pixBilinearSampled taken yet
NoScanStep == [taken |-> FALSE, i |-> 0, j |-> 0, x |-> 0, y |-> 0, read |-> <<>>, pre |-> <<>>]

\* pixBilinearSampled not called yet
NoScan == [stage |-> "idle", pixs |-> 0, pixd |-> 0, vc |-> <<>>, incolor |-> 0,
           i |-> 0, j |-> 0, step |-> NoScanStep]

\* words per line of a w x h image of depth d
Wpl(w, d) == (w * d + 31) \div 32

\* pixel (x, y) of a PIX, as the set of its ON bits
GetPixel(p, x, y) == GetField(p.data, y * p.wpl, x, p.d)

Pixels(p) == (0..(p.w - 1)) \X (0..(p.h - 1))

PixEqual(p, q) ==
    /\ p.w = q.w /\ p.h = q.h /\ p.d = q.d
    /\ \A c \in Pixels(p) : GetPixel(p, c[1], c[2]) = GetPixel(q, c[1], c[2])

(***************************************************************************)
(* Rasterop.  An operation code is the truth table of the result bit as a  *)
(* function of the source and destination bits: the set of pairs           *)
(* <<src, dst>> for which the result bit is 1.                             *)
(***************************************************************************)
TruthTable == BOOLEAN \X BOOLEAN

PIX_SRC == {t \in TruthTable : t[1]}
PIX_DST == {t \in TruthTable : t[2]}
PIX_NOT(op) == TruthTable \ op
PIX_PAINT == PIX_SRC \cup PIX_DST
PIX_MASK == PIX_SRC \cap PIX_DST

\* an operation whose result does not depend on the source
UsesSrc(op) == \E b \in BOOLEAN : (<<TRUE, b>> \in op) # (<<FALSE, b>> \in op)

\* bit k of word idx of pd after the operation on the rectangle (dx, dy, dw, dh)
\* of pd, with source ps placed so that (sx, sy) of ps falls on (dx, dy)
RasteropBit(pd, dx, dy, dw, dh, op, ps, sx, sy, idx, k) ==
    LET y   == idx \div pd.wpl
        rb  == 32 * (idx % pd.wpl) + (31 - k)
        x   == rb \div pd.d
        ys  == y + sy - dy
        xs  == x + sx - dx
        srb == rb + (sx - dx) * pd.d
        dbit == k \in pd.data[idx]
        inD == /\ x >= dx /\ x < dx + dw /\ y >= dy /\ y < dy + dh
               /\ x >= 0 /\ x < pd.w /\ y >= 0 /\ y < pd.h
        inS == xs >= 0 /\ xs < ps.w /\ ys >= 0 /\ ys < ps.h
    IN  IF ~UsesSrc(op)
        THEN (IF inD THEN <<FALSE, dbit>> \in op ELSE dbit)
        ELSE IF inD /\ inS
             THEN <<(31 - (srb % 32)) \in ps.data[ys * ps.wpl + (srb \div 32)], dbit>> \in op
             ELSE dbit

\* the PIX pd after pixRasterop(pd, dx, dy, dw, dh, op, ps, sx, sy); an operation
\* that uses the source fails, changing nothing, when the depths differ
pixRasterop(pd, dx, dy, dw, dh, op, ps, sx, sy) ==
    IF op = PIX_DST \/ (UsesSrc(op) /\ (ps = NullPix \/ ps.d # pd.d))
    THEN pd
    ELSE [pd EXCEPT !.data =
            [idx \in DOMAIN pd.data |->
                {k \in WordBits :
                    RasteropBit(pd, dx, dy, dw, dh, op, ps, sx, sy, idx, k)}]]

(***************************************************************************)
(* Handles.  0 is the null pointer; a call that allocates takes the first  *)
(* free handle.                                                            *)
(***************************************************************************)
NumHandles == 6
Handles == 1..NumHandles
NullHandle == 0

FreeHandle(hp) == CHOOSE n \in Handles : hp[n] = NullPix /\ \A m \in 1..(n - 1) : hp[m] # NullPix

\* pixCopy(pixd, pixs): the objects after the call and the handle returned
pixCopy(hp, pixd, pixs) ==
    IF pixs = NullHandle THEN [hp |-> hp, ret |-> NullHandle]
    ELSE IF pixs = pixd THEN [hp |-> hp, ret |-> pixd]
    ELSE IF pixd = NullHandle
         THEN [hp |-> [hp EXCEPT ![FreeHandle(hp)] = hp[pixs]], ret |-> FreeHandle(hp)]
         ELSE [hp |-> [hp EXCEPT ![pixd] = hp[pixs]], ret |-> pixd]

\* pixRasterop on handles: the objects after the call
RopH(hp, pixd, dx, dy, dw, dh, op, pixs, sx, sy) ==
    [hp EXCEPT ![pixd] =
        pixRasterop(hp[pixd], dx, dy, dw, dh, op,
                    IF pixs = NullHandle THEN NullPix ELSE hp[pixs], sx, sy)]

\* BoolOp without the copy of pixs1 into an existing pixd
BoolOpNoCopy(hp, pixd, pixs1, pixs2, op) ==
    IF pixd = NullHandle
    THEN LET c == pixCopy(hp, pixd, pixs1)
         IN  [hp |-> RopH(c.hp, c.ret, 0, 0, c.hp[c.ret].w, c.hp[c.ret].h, op, pixs2, 0, 0),
              ret |-> c.ret]
    ELSE [hp |-> RopH(hp, pixd, 0, 0, hp[pixd].w, hp[pixd].h, op, pixs2, 0, 0),
          ret |-> pixd]

\* the common body of pixOr, pixAnd and pixXor
BoolOp(hp, pixd, pixs1, pixs2, op) ==
    IF pixs1 = NullHandle \/ pixs2 = NullHandle
    THEN [hp |-> hp, ret |-> NullHandle]
    ELSE LET c == pixCopy(hp, pixd, pixs1)
         IN  [hp |-> RopH(c.hp, c.ret, 0, 0, c.hp[c.ret].w, c.hp[c.ret].h, op, pixs2, 0, 0),
              ret |-> c.ret]

pixOr(hp, pixd, pixs1, pixs2) == BoolOp(hp, pixd, pixs1, pixs2, PIX_SRC \cup PIX_DST)

pixAnd(hp, pixd, pixs1, pixs2) == BoolOp(hp, pixd, pixs1, pixs2, PIX_SRC \cap PIX_DST)

\* the exclusive or computed with the rasterop code of the union
pixXorAsPaint(hp, pixd, pixs1, pixs2) == BoolOp(hp, pixd, pixs1, pixs2, PIX_PAINT)

pixXor(hp, pixd, pixs1, pixs2) ==
    BoolOp(hp, pixd, pixs1, pixs2, (PIX_SRC \ PIX_DST) \cup (PIX_DST \ PIX_SRC))

\* pixSubtract with the case pixd == pixs2 handled like a distinct pixd: pixs1 is
\* copied over pixs2 before pixs2 is read
pixSubtractNaive(hp, pixd, pixs1, pixs2) ==
    LET c == pixCopy(hp, pixd, pixs1)
    IN  [hp |-> RopH(c.hp, c.ret, 0, 0, hp[pixs1].w, hp[pixs1].h,
                     PIX_DST \cap PIX_NOT(PIX_SRC), pixs2, 0, 0),
         ret |-> c.ret]

pixSubtract(hp, pixd, pixs1, pixs2) ==
    IF pixs1 = NullHandle \/ pixs2 = NullHandle
    THEN [hp |-> hp, ret |-> NullHandle]
    ELSE LET w == hp[pixs1].w
             h == hp[pixs1].h
         IN  IF pixd = NullHandle
             THEN LET c == pixCopy(hp, NullHandle, pixs1)
                  IN  [hp |-> RopH(c.hp, c.ret, 0, 0, w, h,
                                   PIX_DST \cap PIX_NOT(PIX_SRC), pixs2, 0, 0),
                       ret |-> c.ret]
             ELSE IF pixd = pixs1
             THEN [hp |-> RopH(hp, pixd, 0, 0, w, h,
                               PIX_DST \cap PIX_NOT(PIX_SRC), pixs2, 0, 0),
                   ret |-> pixd]
             ELSE IF pixd = pixs2
             THEN [hp |-> RopH(hp, pixd, 0, 0, w, h,
                               PIX_NOT(PIX_DST) \cap PIX_SRC, pixs1, 0, 0),
                   ret |-> pixd]
             ELSE LET c == pixCopy(hp, pixd, pixs1)
                  IN  [hp |-> RopH(c.hp, pixd, 0, 0, w, h,
                                   PIX_DST \cap PIX_NOT(PIX_SRC), pixs2, 0, 0),
                       ret |-> pixd]

\* pixInvert without the copy of pixs into pixd
pixInvertNoCopy(hp, pixd, pixs) ==
    IF pixd = NullHandle
    THEN [hp |-> hp, ret |-> NullHandle]
    ELSE [hp |-> RopH(hp, pixd, 0, 0, hp[pixd].w, hp[pixd].h,
                      PIX_NOT(PIX_DST), NullHandle, 0, 0),
          ret |-> pixd]

pixInvert(hp, pixd, pixs) ==
    IF pixs = NullHandle
    THEN [hp |-> hp, ret |-> NullHandle]
    ELSE LET c == pixCopy(hp, pixd, pixs)
         IN  [hp |-> RopH(c.hp, c.ret, 0, 0, c.hp[c.ret].w, c.hp[c.ret].h,
                          PIX_NOT(PIX_DST), NullHandle, 0, 0),
              ret |-> c.ret]

pixDestroy(hp, h) == [hp EXCEPT ![h] = NullPix]

(***************************************************************************)
(* Pixel counting                                                          *)
(***************************************************************************)
RECURSIVE SumUpTo(_, _)
SumUpTo(f, n) == IF n = 0 THEN 0 ELSE f[n - 1] + SumUpTo(f, n - 1)

\* tab[i] of makePixelSumTab8: the number of 1 bits in the 8 bit index
makePixelSumTab8(i) ==
    LET byte == i % 256
    IN  (byte % 2) + ((byte \div 2) % 2) + ((byte \div 4) % 2) + ((byte \div 8) % 2)
        + ((byte \div 16) % 2) + ((byte \div 32) % 2) + ((byte \div 64) % 2)
        + ((byte \div 128) % 2)

\* the four table lookups made on one word
WordSum(word) ==
    IF word # ZeroWord
    THEN makePixelSumTab8(LowByte(word))
         + makePixelSumTab8(LowByte(Shr(word, 8)))
         + makePixelSumTab8(LowByte(Shr(word, 16)))
         + makePixelSumTab8(LowByte(Shr(word, 24)))
    ELSE 0

\* the mask shifted by endbits instead of 32 - endbits
EndMaskWrongShift(endbits, sh32) == Shl(AllOnes, endbits)

\* endmask = 0xffffffff << (32 - endbits); with endbits = 0 the shift count is the
\* width of the type, which C leaves undefined: sh32 is what the build yields then
EndMask(endbits, sh32) == IF endbits = 0 THEN sh32 ELSE Shl(AllOnes, 32 - endbits)

\* what an undefined shift by 32 of 0xffffffff may yield: the value unshifted
\* (count taken modulo 32) or zero
Shift32Outcomes == {AllOnes, ZeroWord}

\* *pcount of pixCountPixels(pix, &count, NULL) for a 1 bpp pix
CountPixelsSum(p, sh32) ==
    LET fullwords == p.w \div 32
        endbits == p.w % 32
        endmask == EndMask(endbits, sh32)
        rowsum(i) ==
            SumUpTo([j \in 0..(fullwords - 1) |-> WordSum(p.data[i * p.wpl + j])], fullwords)
            + (IF endbits # 0
               THEN WordSum(WAnd(p.data[i * p.wpl + fullwords], endmask))
               ELSE 0)
    IN  SumUpTo([i \in 0..(p.h - 1) |-> rowsum(i)], p.h)

\* pixCountPixels: the value returned and the count stored (0 when it fails)
pixCountPixels(hp, h, sh32) ==
    IF h = NullHandle THEN [ret |-> 1, count |-> 0]
    ELSE IF hp[h].d # 1 THEN [ret |-> 1, count |-> 0]
    ELSE [ret |-> 0, count |-> CountPixelsSum(hp[h], sh32)]

\* the test made after a row with >= in place of >
ExceedsOrEqual(sum, thresh) == sum >= thresh

\* the test made after each row of pixThresholdPixels
Exceeds(sum, thresh) == sum > thresh

\* the words read from row i on: all the rows scanned, the test made only
\* after the last
ThresholdRowsNoExit(p, thresh, sh32, i, sum, reads) ==
    LET n == (p.w \div 32) + (IF p.w % 32 # 0 THEN 1 ELSE 0)
        all == [k \in 1..(n * (p.h - i)) |-> (i + ((k - 1) \div n)) * p.wpl + ((k - 1) % n)]
    IN  [above |-> IF Exceeds(CountPixelsSum(p, sh32), thresh) THEN 1 ELSE 0,
         reads |-> reads \o all]

\* the row loop of pixThresholdPixels from row i on, with the running sum and
\* the offsets of the words read so far; yields *pabove and the words read
RECURSIVE ThresholdRows(_, _, _, _, _, _)
ThresholdRows(p, thresh, sh32, i, sum, reads) ==
    IF i >= p.h THEN [above |-> 0, reads |-> reads]
    ELSE LET fullwords == p.w \div 32
             endbits == p.w % 32
             endmask == EndMask(endbits, sh32)
             line == i * p.wpl
             full == SumUpTo([j \in 0..(fullwords - 1) |-> WordSum(p.data[line + j])], fullwords)
             end == IF endbits # 0 THEN WordSum(WAnd(p.data[line + fullwords], endmask)) ELSE 0
             n == fullwords + (IF endbits # 0 THEN 1 ELSE 0)
             rd == reads \o [k \in 1..n |-> line + k - 1]
         IN  IF Exceeds(sum + full + end, thresh)
             THEN [above |-> 1, reads |-> rd]
             ELSE ThresholdRows(p, thresh, sh32, i + 1, sum + full + end, rd)

\* pixThresholdPixels(pix, thresh, &above, NULL): the value returned, what
\* above holds afterwards (above0 is what it held before) and the words read
pixThresholdPixels(hp, h, thresh, above0, sh32) ==
    IF h = NullHandle THEN [ret |-> 1, above |-> above0, reads |-> <<>>]
    ELSE IF hp[h].d # 1 THEN [ret |-> 1, above |-> above0, reads |-> <<>>]
    ELSE LET r == ThresholdRows(hp[h], thresh, sh32, 0, 0, <<>>)
         IN  [ret |-> 0, above |-> r.above, reads |-> r.reads]

(***************************************************************************)
(* Painting through a mask                                                 *)
(***************************************************************************)
\* pixUnpackBinary(pixs, depth, invert): a new PIX of the given depth in which a
\* pixel is all ones where the 1 bpp pixs is ON (OFF, if invert) and 0 elsewhere
pixUnpackBinary(hp, pixs, depth, invert) ==
    LET m == hp[pixs]
        wpl == Wpl(m.w, depth)
        on(idx, k) ==
            LET x == (32 * (idx % wpl) + 31 - k) \div depth
                y == idx \div wpl
            IN  x < m.w /\ (GET_DATA_BIT(m.data, y * m.wpl, x) # (invert = 1))
        new == [w |-> m.w, h |-> m.h, d |-> depth, wpl |-> wpl,
                data |-> [idx \in 0..(wpl * m.h - 1) |-> {k \in WordBits : on(idx, k)}]]
    IN  [hp |-> [hp EXCEPT ![FreeHandle(hp)] = new], ret |-> FreeHandle(hp)]

\* the per-pixel loop of pixPaintThroughMask, from mask pixel n = i * wm + j on
RECURSIVE PaintLoop(_, _, _, _, _, _)
PaintLoop(pd, pm, x, y, val, n) ==
    IF n >= pm.w * pm.h THEN pd
    ELSE LET i == n \div pm.w
             j == n % pm.w
         IN  IF y + i < 0 \/ y + i >= pd.h \/ x + j < 0 \/ x + j >= pd.w
             THEN PaintLoop(pd, pm, x, y, val, n + 1)
             ELSE IF GET_DATA_BIT(pm.data, i * pm.wpl, j)
                  THEN PaintLoop([pd EXCEPT !.data =
                                     SetField(pd.data, (y + i) * pd.wpl, x + j, pd.d, val)],
                                 pm, x, y, val, n + 1)
                  ELSE PaintLoop(pd, pm, x, y, val, n + 1)

\* val left as passed
MaskValNone(val, d) == val

\* val masked to the depth d
MaskVal(val, d) == IF d = 32 THEN val ELSE {k \in val : k < d}

\* (1 << d) - 1
MaxVal(d) == 0..(d - 1)

pixPaintThroughMask(hp, pixd, pixm, x, y, val) ==
    IF pixd = NullHandle THEN [hp |-> hp, ret |-> 1]
    ELSE IF pixm = NullHandle THEN [hp |-> hp, ret |-> 0]
    ELSE IF hp[pixm].d # 1 THEN [hp |-> hp, ret |-> 1]
    ELSE IF hp[pixd].d \notin {1, 2, 4, 8, 16, 32} THEN [hp |-> hp, ret |-> 1]
    ELSE
    LET d == hp[pixd].d
        v == MaskVal(val, d)
        wm == hp[pixm].w
        hm == hp[pixm].h
    IN  IF d = 1
        THEN IF v = {}
             THEN LET c == pixInvert(hp, NullHandle, pixm)
                  IN  [hp |-> pixDestroy(RopH(c.hp, pixd, x, y, wm, hm, PIX_MASK, c.ret, 0, 0),
                                         c.ret),
                       ret |-> 0]
             ELSE [hp |-> RopH(hp, pixd, x, y, wm, hm, PIX_PAINT, pixm, 0, 0), ret |-> 0]
        ELSE IF d < 32 /\ v = {}
        THEN LET c == pixUnpackBinary(hp, pixm, d, 1)
             IN  [hp |-> pixDestroy(RopH(c.hp, pixd, x, y, wm, hm, PIX_MASK, c.ret, 0, 0),
                                    c.ret),
                  ret |-> 0]
        ELSE IF d < 32 /\ v = MaxVal(d)
        THEN LET c == pixUnpackBinary(hp, pixm, d, 0)
             IN  [hp |-> pixDestroy(RopH(c.hp, pixd, x, y, wm, hm, PIX_PAINT, c.ret, 0, 0),
                                    c.ret),
                  ret |-> 0]
        ELSE [hp |-> [hp EXCEPT ![pixd] = PaintLoop(hp[pixd], hp[pixm], x, y, v, 0)],
              ret |-> 0]

(***************************************************************************)
(* Dithering.  A pointer is an array and a word offset into it.            *)
(***************************************************************************)
Ptr(r, o) == [r |-> r, o |-> o]

GetB(m, p, n) == GET_DATA_BYTE(m[p.r], p.o, n)

SetB(m, p, n, v) == [m EXCEPT ![p.r] = SET_DATA_BYTE(@, p.o, n, v)]

SetBitP(m, p, n) == [m EXCEPT ![p.r] = SET_DATA_BIT(@, p.o, n)]

SetDibitP(m, p, n, v) == [m EXCEPT ![p.r] = SET_DATA_DIBIT(@, p.o, n, v)]

\* memcpy(dst, src, 4 * nwords)
Memcpy(m, dst, src, nwords) ==
    [m EXCEPT ![dst.r] =
        [k \in DOMAIN @ |->
            IF k >= dst.o /\ k < dst.o + nwords THEN m[src.r][src.o + (k - dst.o)] ELSE @[k]]]

\* the value kept by an l_uint8
U8(v) == v % 256

\* Subtract fval1, fval1, fval2 from the right, below and diagonal neighbours of
\* pixel j, each clamped at 0 (right and diag tell which neighbours are written)
SubNeighbors(m, bufs1, bufs2, j, fval1, fval2, right, below, diag) ==
    LET m1 == IF right THEN SetB(m, bufs1, j + 1, U8(L_MAX(0, GetB(m, bufs1, j + 1) - fval1)))
              ELSE m
        m2 == IF below THEN SetB(m1, bufs2, j, U8(L_MAX(0, GetB(m1, bufs2, j) - fval1)))
              ELSE m1
    IN  IF diag THEN SetB(m2, bufs2, j + 1, U8(L_MAX(0, GetB(m2, bufs2, j + 1) - fval2)))
        ELSE m2

\* the additions stored without the clamp at 255
AddNeighborsNoClamp(m, bufs1, bufs2, j, fval1, fval2, right, below, diag) ==
    LET m1 == IF right THEN SetB(m, bufs1, j + 1, U8(GetB(m, bufs1, j + 1) + fval1)) ELSE m
        m2 == IF below THEN SetB(m1, bufs2, j, U8(GetB(m1, bufs2, j) + fval1)) ELSE m1
    IN  IF diag THEN SetB(m2, bufs2, j + 1, U8(GetB(m2, bufs2, j + 1) + fval2)) ELSE m2

\* Add fval1, fval1, fval2 to the neighbours, each clamped at 255
AddNeighbors(m, bufs1, bufs2, j, fval1, fval2, right, below, diag) ==
    LET m1 == IF right THEN SetB(m, bufs1, j + 1, U8(L_MIN(255, GetB(m, bufs1, j + 1) + fval1)))
              ELSE m
        m2 == IF below THEN SetB(m1, bufs2, j, U8(L_MIN(255, GetB(m1, bufs2, j) + fval1)))
              ELSE m1
    IN  IF diag THEN SetB(m2, bufs2, j + 1, U8(L_MIN(255, GetB(m2, bufs2, j + 1) + fval2)))
        ELSE m2

\* ditherToBinaryLineLow at column j: the arrays after pixel j of the line
ditherToBinaryLineLow(m, lined, w, bufs1, bufs2, lowerclip, upperclip, lastlineflag, j) ==
    LET oval == GetB(m, bufs1, j)
        eval == 255 - oval
        right == j < w - 1
        below == lastlineflag = 0
        diag == right /\ below
    IN  IF ~right /\ ~below
        THEN (IF oval < 128 THEN SetBitP(m, lined, j) ELSE m)
        ELSE IF oval > 127
        THEN (IF eval > upperclip
              THEN SubNeighbors(m, bufs1, bufs2, j, U8((3 * eval) \div 8), U8(eval \div 4),
                                right, below, diag)
              ELSE m)
        ELSE (IF oval > lowerclip
              THEN AddNeighbors(SetBitP(m, lined, j), bufs1, bufs2, j,
                                U8((3 * oval) \div 8), U8(oval \div 4), right, below, diag)
              ELSE SetBitP(m, lined, j))

\* entry i of the three tables built by make8To1DitherTables
make8To1DitherTables(i, lowerclip, upperclip) ==
    IF i <= lowerclip THEN [tabval |-> 1, tab38 |-> 0, tab14 |-> 0]
    ELSE IF i < 128
    THEN [tabval |-> 1, tab38 |-> CDiv(3 * i + 4, 8), tab14 |-> CDiv(i + 2, 4)]
    ELSE IF i < 255 - upperclip
    THEN [tabval |-> 0, tab38 |-> CDiv(3 * (i - 255) + 4, 8), tab14 |-> CDiv((i - 255) + 2, 4)]
    ELSE [tabval |-> 0, tab38 |-> 0, tab14 |-> 0]

\* entry i of the three tables built by make8To2DitherTables
make8To2DitherTables(i, cliptoblack, cliptowhite) ==
    IF i <= cliptoblack THEN [tabval |-> 0, tab38 |-> 0, tab14 |-> 0]
    ELSE IF i < 43
    THEN [tabval |-> 0, tab38 |-> CDiv(3 * i + 4, 8), tab14 |-> CDiv(i + 2, 4)]
    ELSE IF i < 85
    THEN [tabval |-> 1, tab38 |-> CDiv(3 * (i - 85) - 4, 8), tab14 |-> CDiv((i - 85) - 2, 4)]
    ELSE IF i < 128
    THEN [tabval |-> 1, tab38 |-> CDiv(3 * (i - 85) + 4, 8), tab14 |-> CDiv((i - 85) + 2, 4)]
    ELSE IF i < 170
    THEN [tabval |-> 2, tab38 |-> CDiv(3 * (i - 170) - 4, 8), tab14 |-> CDiv((i - 170) - 2, 4)]
    ELSE IF i < 213
    THEN [tabval |-> 2, tab38 |-> CDiv(3 * (i - 170) + 4, 8), tab14 |-> CDiv((i - 170) + 2, 4)]
    ELSE IF i < 255 - cliptowhite
    THEN [tabval |-> 3, tab38 |-> CDiv(3 * (i - 255) - 4, 8), tab14 |-> CDiv((i - 255) - 2, 4)]
    ELSE [tabval |-> 3, tab38 |-> 0, tab14 |-> 0]

\* the neighbour updates without the special cases of the last column and row:
\* the right neighbour is written and the next-row buffer is written on every pixel
TabNeighborsNoEdge(m, bufs1, bufs2, j, tab38val, tab14val, right, below, diag) ==
    LET clamp(v, t) == IF tab38val < 0 THEN U8(L_MAX(0, v + t)) ELSE U8(L_MIN(255, v + t))
        m1 == IF right THEN SetB(m, bufs1, j + 1, clamp(GetB(m, bufs1, j + 1), tab38val)) ELSE m
    IN  SetB(m1, bufs2, j, clamp(GetB(m, bufs2, j), tab38val))

\* the neighbour updates with every amount sent through L_MIN(255, .), whatever
\* its sign
TabNeighborsMinOnly(m, bufs1, bufs2, j, tab38val, tab14val, right, below, diag) ==
    LET rval == IF right THEN GetB(m, bufs1, j + 1) ELSE 0
        bval == IF below THEN GetB(m, bufs2, j) ELSE 0
        dval == IF diag THEN GetB(m, bufs2, j + 1) ELSE 0
        m1 == IF right THEN SetB(m, bufs1, j + 1, U8(L_MIN(255, rval + tab38val))) ELSE m
        m2 == IF below THEN SetB(m1, bufs2, j, U8(L_MIN(255, bval + tab38val))) ELSE m1
    IN  IF diag THEN SetB(m2, bufs2, j + 1, U8(L_MIN(255, dval + tab14val))) ELSE m2

\* the neighbour updates shared by the table-driven line routines: amounts of
\* negative tab38val go through L_MAX(0, .), the others through L_MIN(255, .)
TabNeighbors(m, bufs1, bufs2, j, tab38val, tab14val, right, below, diag) ==
    LET rval == IF right THEN GetB(m, bufs1, j + 1) ELSE 0
        bval == IF below THEN GetB(m, bufs2, j) ELSE 0
        dval == IF diag THEN GetB(m, bufs2, j + 1) ELSE 0
        clamp(v, t) == IF tab38val < 0 THEN U8(L_MAX(0, v + t)) ELSE U8(L_MIN(255, v + t))
        m1 == IF right THEN SetB(m, bufs1, j + 1, clamp(rval, tab38val)) ELSE m
        m2 == IF below THEN SetB(m1, bufs2, j, clamp(bval, tab38val)) ELSE m1
    IN  IF diag THEN SetB(m2, bufs2, j + 1, clamp(dval, tab14val)) ELSE m2

\* the line routine leaving the pixel loop on a zero amount before the output
\* bit is written
ditherToBinaryLineLUTLowSkipZero(m, lined, w, bufs1, bufs2, tab, lastlineflag, j) ==
    LET oval == GetB(m, bufs1, j)
        right == j < w - 1
        below == lastlineflag = 0
        m0 == IF tab[oval].tabval # 0 THEN SetBitP(m, lined, j) ELSE m
    IN  IF ~right /\ ~below THEN m0
        ELSE IF tab[oval].tab38 = 0 THEN m
        ELSE TabNeighbors(m0, bufs1, bufs2, j, tab[oval].tab38, tab[oval].tab14,
                          right, below, right /\ below)

\* ditherToBinaryLineLUTLow at column j, tab holding the three table entries of
\* each value
ditherToBinaryLineLUTLow(m, lined, w, bufs1, bufs2, tab, lastlineflag, j) ==
    LET oval == GetB(m, bufs1, j)
        right == j < w - 1
        below == lastlineflag = 0
        m0 == IF tab[oval].tabval # 0 THEN SetBitP(m, lined, j) ELSE m
    IN  IF ~right /\ ~below THEN m0
        ELSE IF tab[oval].tab38 = 0 THEN m0
        ELSE TabNeighbors(m0, bufs1, bufs2, j, tab[oval].tab38, tab[oval].tab14,
                          right, below, right /\ below)

\* ditherTo2bppLineLow at column j
ditherTo2bppLineLow(m, lined, w, bufs1, bufs2, tab, lastlineflag, j) ==
    LET oval == GetB(m, bufs1, j)
        right == j < w - 1
        below == lastlineflag = 0
        m0 == SetDibitP(m, lined, j, tab[oval].tabval)
    IN  IF ~right /\ ~below THEN m0
        ELSE TabNeighbors(m0, bufs1, bufs2, j, tab[oval].tab38, tab[oval].tab14,
                          right, below, right /\ below)

(***************************************************************************)
(* The dithering passes.  ditherToBinaryLow, ditherToBinaryLUTLow and      *)
(* ditherTo2bppLow are run one after the other on the same source, each    *)
(* into a cleared destination of its own.                                  *)
(***************************************************************************)
MaxDW == 5
MaxDH == 3

Passes == <<"plain", "lut", "twobpp">>

\* gray values of the source images
GrayPool == <<4, 126, 200, 100, 255, 0, 130, 8, 125, 251>>

GrayAt(p, i, col) == GrayPool[((p + col + 3 * i) % 10) + 1]

\* the word whose four bytes, most significant first, are b0, b1, b2, b3
Bytes4(b0, b1, b2, b3) ==
    Shl(ByteWord(b0), 24) \cup Shl(ByteWord(b1), 16) \cup Shl(ByteWord(b2), 8) \cup ByteWord(b3)

SrcImage(w, h, p) ==
    [idx \in 0..(Wpl(w, 8) * h - 1) |->
        LET i == idx \div Wpl(w, 8)
            c == 4 * (idx % Wpl(w, 8))
        IN  Bytes4(GrayAt(p, i, c), GrayAt(p, i, c + 1), GrayAt(p, i, c + 2), GrayAt(p, i, c + 3))]

ZeroArr(n) == [k \in 0..(n - 1) |-> ZeroWord]

\* (lowerclip, upperclip)
ClipPairs == {<<0, 0>>, <<10, 10>>, <<5, 60>>, <<255, 255>>}

NoPass == [pass |-> "none", i |-> 0, j |-> 0, stage |-> "idle", exact |-> TRUE]

NoStep == [pass |-> "none", i |-> 0, j |-> 0, lastlineflag |-> 0, pre |-> <<>>]

DitherIdle ==
    /\ mem = 0 /\ dcfg = 0 /\ dpc = NoPass /\ dout = 0 /\ dstep = NoStep

ScanIdle == scan = NoScan

\* no NUMA created
NoNuma == [obj |-> [made |-> FALSE, n |-> 0, nalloc |-> 0, array |-> <<>>],
           call |-> [op |-> "none", index |-> 0, val |-> 0, ret |-> 0, ival |-> 0, pre |-> <<>>],
           list |-> <<>>]

NumaIdle == numa = NoNuma

PixIdle == pix = [n \in Handles |-> NullPix] /\ last = NoCall

InitDither ==
    /\ \E w \in 1..MaxDW, h \in 1..MaxDH, p \in 0..9, clip \in ClipPairs :
        /\ dcfg = [w |-> w, h |-> h, wpls |-> Wpl(w, 8),
                   lowerclip |-> clip[1], upperclip |-> clip[2], src |-> SrcImage(w, h, p)]
        /\ mem = [datas |-> SrcImage(w, h, p), bufs1 |-> ZeroArr(Wpl(w, 8)),
                  bufs2 |-> ZeroArr(Wpl(w, 8)), datad |-> ZeroArr(1)]
    /\ dpc = NoPass
    /\ dout = [v \in {"plain", "lut", "twobpp"} |-> [done |-> FALSE, datad |-> ZeroArr(1)]]
    /\ dstep = NoStep
    /\ PixIdle
    /\ ScanIdle
    /\ NumaIdle

\* words per line of the destination of a pass
Wpld(v) == IF v = "twobpp" THEN Wpl(dcfg.w, 2) ELSE Wpl(dcfg.w, 1)

\* the pointers the line routines are called with for row i
LineDst(i) == Ptr("datad", i * Wpld(dpc.pass))

\* row i dithered in place in the source instead of in the row buffers
CurrLineInPlace(i) == Ptr("datas", i * dcfg.wpls)

CurrLine(i) == Ptr("bufs1", 0)

NextLine(i) == Ptr("bufs2", 0)

\* The caller hands a pass a cleared destination; the pass primes bufs2 with row 0.
BeginPass ==
    /\ dpc.pass = "none"
    /\ \E n \in 1..3 :
        /\ ~dout[Passes[n]].done
        /\ \A k \in 1..(n - 1) : dout[Passes[k]].done
        /\ mem' = Memcpy([mem EXCEPT !.datad = ZeroArr(Wpld(Passes[n]) * dcfg.h)],
                         Ptr("bufs2", 0), Ptr("datas", 0), dcfg.wpls)
        /\ dpc' = [pass |-> Passes[n], i |-> 0, j |-> 0, stage |-> "row",
                   exact |-> IF Passes[n] = "lut" THEN TRUE ELSE dpc.exact]
    /\ dstep' = NoStep
    /\ UNCHANGED <<dcfg, dout, pix, last, scan, numa>>

\* the two copies in the other order: next is reloaded before it is copied to curr
LoadRowReloadFirst ==
    /\ dpc.stage = "row" /\ dpc.i < dcfg.h - 1
    /\ mem' = Memcpy(Memcpy(mem, Ptr("bufs2", 0), Ptr("datas", (dpc.i + 1) * dcfg.wpls),
                            dcfg.wpls),
                     Ptr("bufs1", 0), Ptr("bufs2", 0), dcfg.wpls)
    /\ dpc' = [dpc EXCEPT !.stage = "pix", !.j = 0]
    /\ dstep' = NoStep
    /\ UNCHANGED <<dcfg, dout, pix, last, scan, numa>>

\* a row that is not the last: next becomes curr, next is loaded from the source
LoadRow ==
    /\ dpc.stage = "row" /\ dpc.i < dcfg.h - 1
    /\ mem' = Memcpy(Memcpy(mem, Ptr("bufs1", 0), Ptr("bufs2", 0), dcfg.wpls),
                     Ptr("bufs2", 0), Ptr("datas", (dpc.i + 1) * dcfg.wpls), dcfg.wpls)
    /\ dpc' = [dpc EXCEPT !.stage = "pix", !.j = 0]
    /\ dstep' = NoStep
    /\ UNCHANGED <<dcfg, dout, pix, last, scan, numa>>

\* the last row: next becomes curr
LoadLastRow ==
    /\ dpc.stage = "row" /\ dpc.i = dcfg.h - 1
    /\ mem' = Memcpy(mem, Ptr("bufs1", 0), Ptr("bufs2", 0), dcfg.wpls)
    /\ dpc' = [dpc EXCEPT !.stage = "pix", !.j = 0]
    /\ dstep' = NoStep
    /\ UNCHANGED <<dcfg, dout, pix, last, scan, numa>>

LastLineFlag == IF dpc.i = dcfg.h - 1 THEN 1 ELSE 0

\* the truncated amounts ditherToBinaryLineLow propagates for the value v
PlainAmounts(v) ==
    IF v > 127
    THEN (IF 255 - v > dcfg.upperclip
          THEN [a38 |-> -((3 * (255 - v)) \div 8), a14 |-> -((255 - v) \div 4)]
          ELSE [a38 |-> 0, a14 |-> 0])
    ELSE (IF v > dcfg.lowerclip
          THEN [a38 |-> (3 * v) \div 8, a14 |-> v \div 4]
          ELSE [a38 |-> 0, a14 |-> 0])

Tab1(v) == make8To1DitherTables(v, dcfg.lowerclip, dcfg.upperclip)

Tab2(v) == make8To2DitherTables(v, dcfg.lowerclip, dcfg.upperclip)

\* the 256-entry tables handed to the line routines
Tables1 == [v \in 0..255 |-> Tab1(v)]

Tables2 == [v \in 0..255 |-> Tab2(v)]

\* the tables of make8To1DitherTables give the pixel at (i, j) of value v the
\* output value and the propagated amounts that ditherToBinaryLineLow computes
AmountsAgree(v, i, j) ==
    LET right == j < dcfg.w - 1
        below == i < dcfg.h - 1
        t14 == IF Tab1(v).tab38 = 0 THEN 0 ELSE Tab1(v).tab14
    IN  /\ Tab1(v).tabval = (IF v > 127 THEN 0 ELSE 1)
        /\ (right \/ below) => Tab1(v).tab38 = PlainAmounts(v).a38
        /\ (right /\ below) => t14 = PlainAmounts(v).a14

\* what follows pixel j of row i: the next pixel, the next row, or the return
AfterPixel(m) ==
    LET ex == dpc.exact /\ (dpc.pass = "lut" =>
                  AmountsAgree(GetB(mem, CurrLine(dpc.i), dpc.j), dpc.i, dpc.j))
    IN  IF dpc.j < dcfg.w - 1
        THEN /\ dpc' = [dpc EXCEPT !.j = dpc.j + 1, !.exact = ex]
             /\ dout' = dout
        ELSE IF dpc.i < dcfg.h - 1
        THEN /\ dpc' = [dpc EXCEPT !.i = dpc.i + 1, !.j = 0, !.stage = "row", !.exact = ex]
             /\ dout' = dout
        ELSE /\ dpc' = [NoPass EXCEPT !.exact = ex]
             /\ dout' = [dout EXCEPT ![dpc.pass] = [done |-> TRUE, datad |-> m.datad]]

Stepped == [pass |-> dpc.pass, i |-> dpc.i, j |-> dpc.j, lastlineflag |-> LastLineFlag, pre |-> mem]

PlainPixel ==
    /\ dpc.pass = "plain" /\ dpc.stage = "pix"
    /\ LET m == ditherToBinaryLineLow(mem, LineDst(dpc.i), dcfg.w, CurrLine(dpc.i),
                                      NextLine(dpc.i), dcfg.lowerclip, dcfg.upperclip,
                                      LastLineFlag, dpc.j)
       IN  mem' = m /\ AfterPixel(m)
    /\ dstep' = Stepped
    /\ UNCHANGED <<dcfg, pix, last, scan, numa>>

LUTPixel ==
    /\ dpc.pass = "lut" /\ dpc.stage = "pix"
    /\ LET m == ditherToBinaryLineLUTLow(mem, LineDst(dpc.i), dcfg.w, CurrLine(dpc.i),
                                         NextLine(dpc.i), Tables1, LastLineFlag, dpc.j)
       IN  mem' = m /\ AfterPixel(m)
    /\ dstep' = Stepped
    /\ UNCHANGED <<dcfg, pix, last, scan, numa>>

TwoBppPixel ==
    /\ dpc.pass = "twobpp" /\ dpc.stage = "pix"
    /\ LET m == ditherTo2bppLineLow(mem, LineDst(dpc.i), dcfg.w, CurrLine(dpc.i),
                                    NextLine(dpc.i), Tables2, LastLineFlag, dpc.j)
       IN  mem' = m /\ AfterPixel(m)
    /\ dstep' = Stepped
    /\ UNCHANGED <<dcfg, pix, last, scan, numa>>

NextDither == BeginPass \/ LoadRow \/ LoadLastRow \/ PlainPixel \/ LUTPixel \/ TwoBppPixel

SpecDither == InitDither /\ [][NextDither]_vars

(***************************************************************************)
(* The PIX objects a run starts from.                                      *)
(***************************************************************************)
MaxW == 2
MaxH == 2
Pats == {1, 2}

\* words of image content; the two top bits of the four words are 10, 01, 11, 00
WordPool == << {31, 29, 28, 25, 24, 20, 17, 12, 7, 3, 0},
               {30, 29, 27, 24, 22, 16, 15, 9, 4, 1},
               AllOnes,
               ZeroWord >>

PatWord(p, i) == WordPool[((p + i) % 4) + 1]

MkPix(w, h, d, p) ==
    [w |-> w, h |-> h, d |-> d, wpl |-> Wpl(w, d),
     data |-> [i \in 0..(Wpl(w, d) * h - 1) |-> PatWord(p + (i \div Wpl(w, d)), i)]]

RopDepths == {1, 8}

\* the heights of the two source images: one row, and the tallest
RopHeights == {1, MaxH}

InitRop ==
    /\ \E d1 \in RopDepths, d2 \in RopDepths, d3 \in {0} \cup RopDepths,
          w1 \in 1..MaxW, h1 \in RopHeights, w2 \in 1..MaxW, h2 \in RopHeights,
          p1 \in Pats :
            pix = [n \in Handles |->
                     IF n = 1 THEN MkPix(w1, h1, d1, p1)
                     ELSE IF n = 2 THEN MkPix(w2, h2, d2, 0)
                     ELSE IF n = 3 /\ d3 # 0 THEN MkPix(1, MaxH, d3, 2)
                     ELSE NullPix]
    /\ last = NoCall
    /\ DitherIdle
    /\ ScanIdle
    /\ NumaIdle

Live(hp) == {n \in Handles : hp[n] # NullPix}

Called(op, pixd, pixs1, pixs2, r) ==
    [op |-> op, pixd |-> pixd, pixs1 |-> pixs1, pixs2 |-> pixs2, x |-> 0, y |-> 0,
     val |-> {}, pre |-> pix, ret |-> r.ret, count |-> 0, reads |-> <<>>]

CallOr ==
    /\ last.op = "none"
    /\ \E pixd \in {NullHandle} \cup Live(pix), pixs1 \in 1..2, pixs2 \in 1..2 :
         LET r == pixOr(pix, pixd, pixs1, pixs2)
         IN  pix' = r.hp /\ last' = Called("or", pixd, pixs1, pixs2, r)
    /\ UNCHANGED <<ditherVars, scan, numa>>

CallAnd ==
    /\ last.op = "none"
    /\ \E pixd \in {NullHandle} \cup Live(pix), pixs1 \in 1..2, pixs2 \in 1..2 :
         LET r == pixAnd(pix, pixd, pixs1, pixs2)
         IN  pix' = r.hp /\ last' = Called("and", pixd, pixs1, pixs2, r)
    /\ UNCHANGED <<ditherVars, scan, numa>>

CallXor ==
    /\ last.op = "none"
    /\ \E pixd \in {NullHandle} \cup Live(pix), pixs1 \in 1..2, pixs2 \in 1..2 :
         LET r == pixXor(pix, pixd, pixs1, pixs2)
         IN  pix' = r.hp /\ last' = Called("xor", pixd, pixs1, pixs2, r)
    /\ UNCHANGED <<ditherVars, scan, numa>>

CallSubtract ==
    /\ last.op = "none"
    /\ \E pixd \in {NullHandle} \cup Live(pix), pixs1 \in 1..2, pixs2 \in 1..2 :
         LET r == pixSubtract(pix, pixd, pixs1, pixs2)
         IN  pix' = r.hp /\ last' = Called("subtract", pixd, pixs1, pixs2, r)
    /\ UNCHANGED <<ditherVars, scan, numa>>

NextRop == CallOr \/ CallAnd \/ CallXor \/ CallSubtract

SpecRop == InitRop /\ [][NextRop]_vars

(***************************************************************************)
(* Counting the ON pixels of one image.                                    *)
(***************************************************************************)
CountWidths == {1, 8, 31, 32, 33, 40, 64, 65}

InitCount ==
    /\ \E w \in CountWidths, h \in 1..MaxH, d \in {1, 8}, p \in 0..3 :
            pix = [n \in Handles |-> IF n = 1 THEN MkPix(w, h, d, p) ELSE NullPix]
    /\ last = NoCall
    /\ DitherIdle
    /\ ScanIdle
    /\ NumaIdle

CallCountPixels ==
    /\ last.op = "none"
    /\ \E sh32 \in Shift32Outcomes :
         LET r == pixCountPixels(pix, 1, sh32)
         IN  /\ pix' = pix
             /\ last' = [NoCall EXCEPT !.op = "count", !.pixs1 = 1, !.pre = pix,
                                       !.ret = r.ret, !.count = r.count,
                                       !.val = sh32]
    /\ UNCHANGED <<ditherVars, scan, numa>>

\* thresholds below, at and above the counts of the images
ThreshVals == {-1, 0, 10, 11, 21, 32, 43, 64}

CallThresholdPixels ==
    /\ last.op = "none"
    /\ \E thresh \in ThreshVals, above0 \in {0, 1}, sh32 \in Shift32Outcomes :
         LET r == pixThresholdPixels(pix, 1, thresh, above0, sh32)
         IN  /\ pix' = pix
             /\ last' = [NoCall EXCEPT !.op = "threshold", !.pixs1 = 1, !.pre = pix,
                                       !.x = thresh, !.y = above0, !.ret = r.ret,
                                       !.count = r.above, !.val = sh32,
                                       !.reads = r.reads]
    /\ UNCHANGED <<ditherVars, scan, numa>>

NextCount == CallCountPixels \/ CallThresholdPixels

SpecCount == InitCount /\ [][NextCount]_vars

(***************************************************************************)
(* Painting a value through a mask: pixd is handle 1, pixm handle 2.       *)
(***************************************************************************)
PaintDepths == {1, 2, 4, 8, 16, 32}

\* 0, 0xffffffff, 1, 2 and a value with bits in every byte
PaintVals == {ZeroWord, AllOnes, {0}, {1}, {0, 2, 5, 9, 17, 30}}

InitPaint ==
    /\ \E d \in PaintDepths, w \in 1..MaxW, h \in 1..MaxH, p \in Pats,
          wm \in 1..MaxW, hm \in 1..MaxH, pm \in 0..1 :
            pix = [n \in Handles |-> IF n = 1 THEN MkPix(w, h, d, p)
                                     ELSE IF n = 2 THEN MkPix(wm, hm, 1, pm)
                                     ELSE NullPix]
    /\ last = NoCall
    /\ DitherIdle
    /\ ScanIdle
    /\ NumaIdle

CallPaintThroughMask ==
    /\ last.op = "none"
    /\ \E x \in -1..1, y \in -1..1, val \in PaintVals :
         LET r == pixPaintThroughMask(pix, 1, 2, x, y, val)
         IN  /\ pix' = r.hp
             /\ last' = [NoCall EXCEPT !.op = "paint", !.pixd = 1, !.pixs1 = 2, !.pre = pix,
                                       !.x = x, !.y = y, !.val = val, !.ret = r.ret]
    /\ UNCHANGED <<ditherVars, scan, numa>>

NextPaint == CallPaintThroughMask

SpecPaint == InitPaint /\ [][NextPaint]_vars

(***************************************************************************)
(* The sampled bilinear transform of bilinear.c.  The coefficients vc are  *)
(* l_float32 values; the model draws them from the multiples of 1/Den, Den *)
(* a power of two, for which the floating-point arithmetic of              *)
(* bilinearXformSampledPt is exact, and holds c/Den as the integer c.      *)
(***************************************************************************)
Den == Pow2(2)

L_BRING_IN_WHITE == 1
L_BRING_IN_BLACK == 2

\* (l_int32)(v + 0.5) for v = n/Den: the conversion truncates toward zero
RoundCast(n) == CDiv(2 * n + Den, 2 * Den)

bilinearXformSampledPt(vc, x, y) ==
    [xp |-> RoundCast(vc[1] * x + vc[2] * y + vc[3] * x * y + vc[4]),
     yp |-> RoundCast(vc[5] * x + vc[6] * y + vc[7] * x * y + vc[8])]

\* a new PIX with the dimensions of pixs and cleared data
pixCreateTemplate(hp, pixs) ==
    LET n == FreeHandle(hp)
    IN  [hp |-> [hp EXCEPT ![n] = [hp[pixs] EXCEPT !.data = [k \in DOMAIN hp[pixs].data |-> ZeroWord]]],
         ret |-> n]

pixClearAll(hp, h) == [hp EXCEPT ![h].data = [k \in DOMAIN hp[h].data |-> ZeroWord]]

pixSetAll(hp, h) == [hp EXCEPT ![h].data = [k \in DOMAIN hp[h].data |-> AllOnes]]

SampledDepths == {1, 2, 4, 8, 32}

\* the destination is cleared whatever the depth when black is brought in
BringInClearByColor(d, incolor) == incolor = L_BRING_IN_BLACK

\* the destination starts cleared, rather than set, for these depths and colors
BringInClear(d, incolor) ==
    (d = 1 /\ incolor = L_BRING_IN_WHITE) \/ (d > 1 /\ incolor = L_BRING_IN_BLACK)

\* the test that skips a destination pixel
OutOfBounds(x, y, w, h) == x < 0 \/ y < 0 \/ x >= w \/ y >= h

\* the depth-aware copy of source pixel x of the line at lines to destination
\* pixel j of the line at lined
CopyPixel(datas, lines, x, datad, lined, j, d) ==
    IF d = 1 THEN (IF GET_DATA_BIT(datas, lines, x) THEN SET_DATA_BIT(datad, lined, j)
                   ELSE datad)
    ELSE IF d = 8 THEN SET_DATA_BYTE(datad, lined, j, GET_DATA_BYTE(datas, lines, x))
    ELSE IF d = 32 THEN [datad EXCEPT ![lined + j] = datas[lines + x]]
    ELSE IF d = 2 THEN SET_DATA_DIBIT(datad, lined, j, GET_DATA_DIBIT(datas, lines, x))
    ELSE SET_DATA_QBIT(datad, lined, j, GET_DATA_QBIT(datas, lines, x))

IdentityVc == <<Den, 0, 0, 0, 0, Den, 0, 0>>

\* the identity, x - 1, x - 3/4, y + 1, x + xy with y - 1/2, and a scaling by 1/2
VcSet == {IdentityVc,
          <<Den, 0, 0, -Den, 0, Den, 0, 0>>,
          <<Den, 0, 0, 1 - Den, 0, Den, 0, 0>>,
          <<Den, 0, 0, 0, 0, Den, 0, Den>>,
          <<Den, 0, Den, 0, 0, Den, 0, -(Den \div 2)>>,
          <<Den \div 2, 0, 0, 0, 0, Den \div 2, 0, 0>>}

BilinDepths == {1, 2, 4, 8, 16, 32}

InitBilin ==
    /\ \E d \in BilinDepths, w \in 1..MaxW, h \in 1..MaxH, p \in Pats :
            pix = [n \in Handles |-> IF n = 1 THEN MkPix(w, h, d, p) ELSE NullPix]
    /\ last = NoCall
    /\ DitherIdle
    /\ ScanIdle
    /\ NumaIdle

\* pixBilinearSampled(pixs, vc, incolor) up to the scan: the checks of the
\* arguments, the template and its background
BeginBilinearSampled ==
    /\ scan.stage = "idle"
    /\ \E vc \in VcSet, incolor \in {0, L_BRING_IN_WHITE, L_BRING_IN_BLACK} :
         IF incolor \notin {L_BRING_IN_WHITE, L_BRING_IN_BLACK} \/ pix[1].d \notin SampledDepths
         THEN /\ scan' = [NoScan EXCEPT !.stage = "done", !.pixs = 1, !.pixd = NullHandle,
                                        !.vc = vc, !.incolor = incolor]
              /\ pix' = pix
         ELSE LET t == pixCreateTemplate(pix, 1)
              IN  /\ pix' = IF BringInClear(pix[1].d, incolor) THEN pixClearAll(t.hp, t.ret)
                            ELSE pixSetAll(t.hp, t.ret)
                  /\ scan' = [NoScan EXCEPT !.stage = "scan", !.pixs = 1, !.pixd = t.ret,
                                            !.vc = vc, !.incolor = incolor]
    /\ UNCHANGED <<last, ditherVars, numa>>

\* one iteration of the scan over the destination pixels: pixel (j, i)
ScanPixel ==
    /\ scan.stage = "scan"
    /\ LET ps == pix[scan.pixs]
           pd == pix[scan.pixd]
           pt == bilinearXformSampledPt(scan.vc, scan.j, scan.i)
           skip == OutOfBounds(pt.xp, pt.yp, ps.w, ps.h)
           datad == IF skip THEN pd.data
                    ELSE CopyPixel(ps.data, pt.yp * ps.wpl, pt.xp,
                                   pd.data, scan.i * pd.wpl, scan.j, ps.d)
           st == [taken |-> TRUE, i |-> scan.i, j |-> scan.j, x |-> pt.xp, y |-> pt.yp,
                  read |-> IF skip THEN <<>> ELSE <<pt.xp, pt.yp>>, pre |-> pd.data]
       IN  /\ pix' = [pix EXCEPT ![scan.pixd].data = datad]
           /\ scan' = IF scan.j < ps.w - 1
                      THEN [scan EXCEPT !.j = scan.j + 1, !.step = st]
                      ELSE IF scan.i < ps.h - 1
                      THEN [scan EXCEPT !.i = scan.i + 1, !.j = 0, !.step = st]
                      ELSE [scan EXCEPT !.stage = "done", !.step = st]
    /\ UNCHANGED <<last, ditherVars, numa>>

NextBilin == BeginBilinearSampled \/ ScanPixel

SpecBilin == InitBilin /\ [][NextBilin]_vars

(***************************************************************************)
(* The orthogonal transforms of rotateorth.c and the inversion of pix3.c,  *)
(* applied once and then once more to what the first call returned.        *)
(***************************************************************************)
\* the image of dimensions w x h and the depth of p whose pixel c is the pixel
\* from[c] of p; the bits beyond the width are cleared
Remap(p, w, h, from) ==
    LET wpl == Wpl(w, p.d)
        bit(idx, k) ==
            LET pos == 32 * (idx % wpl) + 31 - k
                x == pos \div p.d
                y == idx \div wpl
            IN  x < w /\ (p.d - 1 - (pos % p.d)) \in GetPixel(p, from[<<x, y>>][1], from[<<x, y>>][2])
    IN  [w |-> w, h |-> h, d |-> p.d, wpl |-> wpl,
         data |-> [idx \in 0..(wpl * h - 1) |-> {k \in WordBits : bit(idx, k)}]]

\* flipLRLow: every row reversed pixel by pixel
flipLRLow(p) ==
    Remap(p, p.w, p.h, [c \in (0..p.w) \X (0..p.h) |-> <<L_MAX(0, p.w - 1 - c[1]), L_MIN(c[2], p.h - 1)>>])

\* flipTBLow: row i exchanged with row h - 1 - i, whole lines at a time
flipTBLow(p) ==
    [p EXCEPT !.data = [idx \in DOMAIN p.data |->
                           p.data[(p.h - 1 - (idx \div p.wpl)) * p.wpl + (idx % p.wpl)]]]

\* rotate90Low into an image of dimensions hs x ws: clockwise for direction 1,
\* counter-clockwise for direction -1
rotate90Low(p, direction) ==
    Remap(p, p.h, p.w,
          [c \in (0..p.h) \X (0..p.w) |->
              IF direction = 1
              THEN <<L_MIN(c[2], p.w - 1), L_MAX(0, p.h - 1 - c[1])>>
              ELSE <<L_MAX(0, p.w - 1 - c[2]), L_MIN(c[1], p.h - 1)>>])

OrthDepths == {1, 2, 4, 8, 16, 32}

\* pixFlipLR without the copy of pixs into pixd
pixFlipLRNoCopy(hp, pixd, pixs) ==
    IF pixd = NullHandle THEN [hp |-> hp, ret |-> NullHandle]
    ELSE [hp |-> [hp EXCEPT ![pixd] = flipLRLow(hp[pixd])], ret |-> pixd]

pixFlipLR(hp, pixd, pixs) ==
    IF pixs = NullHandle THEN [hp |-> hp, ret |-> pixd]
    ELSE IF hp[pixs].d \notin OrthDepths THEN [hp |-> hp, ret |-> pixd]
    ELSE LET c == IF pixs # pixd THEN pixCopy(hp, pixd, pixs) ELSE [hp |-> hp, ret |-> pixd]
         IN  [hp |-> [c.hp EXCEPT ![c.ret] = flipLRLow(c.hp[c.ret])], ret |-> c.ret]

pixFlipTB(hp, pixd, pixs) ==
    IF pixs = NullHandle THEN [hp |-> hp, ret |-> pixd]
    ELSE IF hp[pixs].d \notin OrthDepths THEN [hp |-> hp, ret |-> pixd]
    ELSE LET c == IF pixs # pixd THEN pixCopy(hp, pixd, pixs) ELSE [hp |-> hp, ret |-> pixd]
         IN  [hp |-> [c.hp EXCEPT ![c.ret] = flipTBLow(c.hp[c.ret])], ret |-> c.ret]

pixRotate180(hp, pixd, pixs) ==
    IF pixs = NullHandle THEN [hp |-> hp, ret |-> pixd]
    ELSE IF hp[pixs].d \notin OrthDepths THEN [hp |-> hp, ret |-> pixd]
    ELSE LET c == IF pixs # pixd THEN pixCopy(hp, pixd, pixs) ELSE [hp |-> hp, ret |-> pixd]
             lr == pixFlipLR(c.hp, c.ret, c.ret)
             tb == pixFlipTB(lr.hp, c.ret, c.ret)
         IN  [hp |-> tb.hp, ret |-> c.ret]

\* pixCreate(w, h, d): a new PIX with cleared data
pixCreate(hp, w, h, d) ==
    LET n == FreeHandle(hp)
    IN  [hp |-> [hp EXCEPT ![n] = [w |-> w, h |-> h, d |-> d, wpl |-> Wpl(w, d),
                                   data |-> [k \in 0..(Wpl(w, d) * h - 1) |-> ZeroWord]]],
         ret |-> n]

\* pixRotate90 with the dimensions of the source given to the new image
pixRotate90SameDims(hp, pixs, direction) ==
    IF direction # 1 /\ direction # -1 THEN [hp |-> hp, ret |-> NullHandle]
    ELSE LET c == pixCreate(hp, hp[pixs].w, hp[pixs].h, hp[pixs].d)
             r == rotate90Low(hp[pixs], direction)
         IN  [hp |-> [c.hp EXCEPT ![c.ret].data =
                         [idx \in DOMAIN c.hp[c.ret].data |->
                             IF idx \in DOMAIN r.data THEN r.data[idx] ELSE ZeroWord]],
              ret |-> c.ret]

pixRotate90(hp, pixs, direction) ==
    IF pixs = NullHandle THEN [hp |-> hp, ret |-> NullHandle]
    ELSE IF hp[pixs].d \notin OrthDepths THEN [hp |-> hp, ret |-> NullHandle]
    ELSE IF direction # 1 /\ direction # -1 THEN [hp |-> hp, ret |-> NullHandle]
    ELSE LET hd == hp[pixs].w
             wd == hp[pixs].h
             c == pixCreate(hp, wd, hd, hp[pixs].d)
         IN  [hp |-> [c.hp EXCEPT ![c.ret].data = rotate90Low(hp[pixs], direction).data],
              ret |-> c.ret]

\* the image to transform is handle 1; handle 2 is another existing image
InitUnary ==
    /\ \E d \in OrthDepths, w \in 1..MaxW, h \in 1..MaxH, p \in Pats :
            pix = [n \in Handles |-> IF n = 1 THEN MkPix(w, h, d, p)
                                     ELSE IF n = 2 THEN MkPix(1, 1, d, 0)
                                     ELSE NullPix]
    /\ last = NoCall
    /\ DitherIdle
    /\ ScanIdle
    /\ NumaIdle

\* a call of op may be made first, or on what a first call of op returned
MayCall(op) ==
    /\ last.op \in {"none", op}
    /\ last.count < 2
    /\ last.op = op => last.ret # NullHandle

\* the image handed to the call
CallSrc == IF last.op = "none" THEN 1 ELSE last.ret

CalledUnary(op, pixd, r, dir) ==
    [op |-> op, pixd |-> pixd, pixs1 |-> CallSrc, pixs2 |-> 0,
     x |-> IF last.op = "none" THEN dir ELSE last.x,
     y |-> IF last.op = "none" THEN 0 ELSE dir,
     val |-> {}, pre |-> IF last.op = "none" THEN pix ELSE last.pre,
     ret |-> r.ret, count |-> last.count + 1, reads |-> <<>>]

CallFlipLR ==
    /\ MayCall("fliplr")
    /\ \E pixd \in {NullHandle} \cup Live(pix) :
         LET r == pixFlipLR(pix, pixd, CallSrc)
         IN  pix' = r.hp /\ last' = CalledUnary("fliplr", pixd, r, 0)
    /\ UNCHANGED <<ditherVars, scan, numa>>

CallFlipTB ==
    /\ MayCall("fliptb")
    /\ \E pixd \in {NullHandle} \cup Live(pix) :
         LET r == pixFlipTB(pix, pixd, CallSrc)
         IN  pix' = r.hp /\ last' = CalledUnary("fliptb", pixd, r, 0)
    /\ UNCHANGED <<ditherVars, scan, numa>>

CallRotate180 ==
    /\ MayCall("rotate180")
    /\ \E pixd \in {NullHandle} \cup Live(pix) :
         LET r == pixRotate180(pix, pixd, CallSrc)
         IN  pix' = r.hp /\ last' = CalledUnary("rotate180", pixd, r, 0)
    /\ UNCHANGED <<ditherVars, scan, numa>>

Directions == {-1, 0, 1, 2}

CallRotate90 ==
    /\ MayCall("rotate90")
    /\ \E direction \in Directions :
         LET r == pixRotate90(pix, CallSrc, direction)
         IN  pix' = r.hp /\ last' = CalledUnary("rotate90", NullHandle, r, direction)
    /\ UNCHANGED <<ditherVars, scan, numa>>

CallInvert ==
    /\ MayCall("invert")
    /\ \E pixd \in {NullHandle} \cup Live(pix) :
         LET r == pixInvert(pix, pixd, CallSrc)
         IN  pix' = r.hp /\ last' = CalledUnary("invert", pixd, r, 0)
    /\ UNCHANGED <<ditherVars, scan, numa>>

NextUnary == CallFlipLR \/ CallFlipTB \/ CallRotate180 \/ CallRotate90 \/ CallInvert

SpecUnary == InitUnary /\ [][NextUnary]_vars

(***************************************************************************)
(* The gray histogram of one image, handle 1, without a colormap.          *)
(***************************************************************************)
\* a NUMA of n numbers: nz holds the entries that were assigned or incremented,
\* every other entry is the 0.0 that numaSetCount left
NumaGet(na, v) == IF v \in DOMAIN na.nz THEN na.nz[v] ELSE 0

\* array[v] = x in place of array[v] += x
NumaAssign(na, v, x) == [na EXCEPT !.nz = [u \in DOMAIN na.nz \cup {v} |->
                                              IF u = v THEN x ELSE na.nz[u]]]

NumaAdd(na, v, x) == [na EXCEPT !.nz = [u \in DOMAIN na.nz \cup {v} |->
                                           IF u = v THEN NumaGet(na, v) + x ELSE na.nz[u]]]

RECURSIVE ShiftOne(_)
\* 1 << d
ShiftOne(d) == IF d = 0 THEN 1 ELSE 2 * ShiftOne(d - 1)

\* the row step of the sampling taken as 1
HistNextRowUnsampled(i, factor) == i + 1

\* i += factor
HistNextRow(i, factor) == i + factor

\* the two loops of pixGetGrayHistogram from row i, column j on
RECURSIVE HistLoop(_, _, _, _, _)
HistLoop(p, factor, i, j, na) ==
    IF i >= p.h THEN [null |-> FALSE, n |-> na.n, nz |-> na.nz]
    ELSE IF p.d \notin {2, 4, 8, 16} THEN [null |-> TRUE, n |-> 0, nz |-> <<>>]
    ELSE IF j >= p.w THEN HistLoop(p, factor, HistNextRow(i, factor), 0, na)
    ELSE LET line == i * p.wpl
             val == IF p.d = 2 THEN GET_DATA_DIBIT(p.data, line, j)
                    ELSE IF p.d = 4 THEN GET_DATA_QBIT(p.data, line, j)
                    ELSE IF p.d = 8 THEN GET_DATA_BYTE(p.data, line, j)
                    ELSE GET_DATA_TWO_BYTES(p.data, line, j)
         IN  HistLoop(p, factor, i, j + factor, NumaAdd(na, val, 1))

pixGetGrayHistogram(hp, pixs, factor, sh32) ==
    IF pixs = NullHandle THEN [null |-> TRUE, n |-> 0, nz |-> <<>>]
    ELSE IF hp[pixs].d > 16 THEN [null |-> TRUE, n |-> 0, nz |-> <<>>]
    ELSE IF factor < 1 THEN [null |-> TRUE, n |-> 0, nz |-> <<>>]
    ELSE LET pixg == hp[pixs]
             size == ShiftOne(pixg.d)
             count == pixCountPixels(hp, pixs, sh32).count
         IN  IF pixg.d = 1
             THEN [null |-> FALSE, n |-> size,
                   nz |-> [v \in {0, 1} |-> IF v = 0 THEN pixg.w * pixg.h - count ELSE count]]
             ELSE HistLoop(pixg, factor, 0, 0, [n |-> size, nz |-> <<>>])

HistWidths == {1, MaxW, 4, 5}

HistFactors == {0, 1, 2, 3}

InitHist ==
    /\ \E d \in BilinDepths, w \in HistWidths, h \in 1..(MaxH + 1), p \in Pats :
            pix = [n \in Handles |-> IF n = 1 THEN MkPix(w, h, d, p) ELSE NullPix]
    /\ last = NoCall
    /\ DitherIdle
    /\ ScanIdle
    /\ NumaIdle

CallGetGrayHistogram ==
    /\ last.op = "none"
    /\ \E factor \in HistFactors, sh32 \in Shift32Outcomes :
         /\ pix' = pix
         /\ last' = [NoCall EXCEPT !.op = "histogram", !.pixs1 = 1, !.pre = pix,
                                   !.x = factor,
                                   !.val = pixGetGrayHistogram(pix, 1, factor, sh32)]
    /\ UNCHANGED <<ditherVars, scan, numa>>

NextHist == CallGetGrayHistogram

SpecHist == InitHist /\ [][NextHist]_vars

(***************************************************************************)
(* Combining through a mask: pixd is handle 1, pixm handle 3, pixs handle  *)
(* 2 or pixd itself.                                                       *)
(***************************************************************************)
\* the mask taken as ON everywhere
CombineMaskBitAlways(pm, i, j) == TRUE

\* GET_DATA_BIT(linem, j)
CombineMaskBit(pm, i, j) == GET_DATA_BIT(pm.data, i * pm.wpl, j)

\* the loops of pixCombineThroughMask from pixel n = i * wmin + j of the
\* overlap of pixs and pixm on, on the heap hp
RECURSIVE CombineLoop(_, _, _, _, _, _, _)
CombineLoop(hp, pixd, pixs, pixm, x, y, n) ==
    LET pd == hp[pixd]
        ps == hp[pixs]
        pm == hp[pixm]
        wmin == L_MIN(ps.w, pm.w)
        hmin == L_MIN(ps.h, pm.h)
        i == n \div wmin
        j == n % wmin
        line == (y + i) * pd.wpl
        lines == i * ps.wpl
    IN  IF n >= wmin * hmin THEN hp
        ELSE IF y + i < 0 \/ y + i >= pd.h \/ x + j < 0 \/ x + j >= pd.w
        THEN CombineLoop(hp, pixd, pixs, pixm, x, y, n + 1)
        ELSE IF ~CombineMaskBit(pm, i, j)
        THEN CombineLoop(hp, pixd, pixs, pixm, x, y, n + 1)
        ELSE IF pd.d = 8
        THEN CombineLoop([hp EXCEPT ![pixd].data =
                             SET_DATA_BYTE(pd.data, line, x + j, GET_DATA_BYTE(ps.data, lines, j))],
                         pixd, pixs, pixm, x, y, n + 1)
        ELSE CombineLoop([hp EXCEPT ![pixd].data = [pd.data EXCEPT ![line + x + j] = ps.data[lines + j]]],
                         pixd, pixs, pixm, x, y, n + 1)

pixCombineThroughMask(hp, pixd, pixs, pixm, x, y) ==
    IF pixm = NullHandle THEN [hp |-> hp, ret |-> 0]
    ELSE IF pixd = NullHandle THEN [hp |-> hp, ret |-> 1]
    ELSE IF pixs = NullHandle THEN [hp |-> hp, ret |-> 1]
    ELSE IF hp[pixd].d # hp[pixs].d THEN [hp |-> hp, ret |-> 1]
    ELSE IF hp[pixm].d # 1 THEN [hp |-> hp, ret |-> 1]
    ELSE IF hp[pixd].d # 8 /\ hp[pixd].d # 32 THEN [hp |-> hp, ret |-> 1]
    ELSE [hp |-> CombineLoop(hp, pixd, pixs, pixm, x, y, 0), ret |-> 0]

CombineDepths == {8, 16, 32}

InitCombine ==
    /\ \E d \in CombineDepths, ds \in CombineDepths, dm \in {1, 8},
          w \in 1..MaxW, h \in RopHeights, ws \in 1..MaxW, hs \in RopHeights,
          wm \in 1..MaxW, hm \in RopHeights, pm \in 0..1 :
            /\ (d # ds \/ dm # 1) => (w = 1 /\ h = 1 /\ ws = 1 /\ hs = 1 /\ wm = 1 /\ hm = 1)
            /\ pix = [n \in Handles |-> IF n = 1 THEN MkPix(w, h, d, 1)
                                        ELSE IF n = 2 THEN MkPix(ws, hs, ds, 2)
                                        ELSE IF n = 3 THEN MkPix(wm, hm, dm, pm)
                                        ELSE NullPix]
    /\ last = NoCall
    /\ DitherIdle
    /\ ScanIdle
    /\ NumaIdle

CallCombineThroughMask ==
    /\ last.op = "none"
    /\ \E pixs \in 1..2, pixm \in {NullHandle, 3}, x \in -1..1, y \in -1..1 :
         LET r == pixCombineThroughMask(pix, 1, pixs, pixm, x, y)
         IN  /\ pix' = r.hp
             /\ last' = [NoCall EXCEPT !.op = "combine", !.pixd = 1, !.pixs1 = pixs,
                                       !.pixs2 = pixm, !.pre = pix,
                                       !.x = x, !.y = y, !.ret = r.ret]
    /\ UNCHANGED <<ditherVars, scan, numa>>

NextCombine == CallCombineThroughMask

SpecCombine == InitCombine /\ [][NextCombine]_vars

(***************************************************************************)
(* The masked average: pixs is handle 1, pixm handle 2 or null.  A value   *)
(* of type l_float32 is held exactly, as the quotient num / den or its     *)
(* square root; the rounding of the final cast is left out.                *)
(***************************************************************************)
StatTypes == {"L_MEAN_ABSVAL", "L_ROOT_MEAN_SQUARE", "L_STANDARD_DEVIATION", "L_VARIANCE"}

\* 0.0
ZeroVal == [sqrt |-> FALSE, num |-> 0, den |-> 1]

\* the sums of pixGetAverageMasked after the loops over the whole of pixg
RECURSIVE AverageLoop(_, _, _, _)
AverageLoop(pg, factor, type, n) ==
    LET per == (pg.w + factor - 1) \div factor
        i == factor * (n \div per)
        j == factor * (n % per)
    IN  IF i >= pg.h THEN [sumave |-> 0, summs |-> 0, count |-> 0]
        ELSE LET val == GET_DATA_BYTE(pg.data, i * pg.wpl, j)
                 r == AverageLoop(pg, factor, type, n + 1)
             IN  [sumave |-> r.sumave + (IF type # "L_ROOT_MEAN_SQUARE" THEN val ELSE 0),
                  summs |-> r.summs + (IF type # "L_MEAN_ABSVAL" THEN val * val ELSE 0),
                  count |-> r.count + 1]

\* the sums after the loops over the mask placed at (x, y)
RECURSIVE AverageMaskedLoop(_, _, _, _, _, _, _)
AverageMaskedLoop(pg, pm, x, y, factor, type, n) ==
    LET per == (pm.w + factor - 1) \div factor
        i == factor * (n \div per)
        j == factor * (n % per)
    IN  IF i >= pm.h THEN [sumave |-> 0, summs |-> 0, count |-> 0]
        ELSE LET r == AverageMaskedLoop(pg, pm, x, y, factor, type, n + 1)
             IN  IF y + i < 0 \/ y + i >= pg.h \/ x + j < 0 \/ x + j >= pg.w THEN r
                 ELSE IF ~GET_DATA_BIT(pm.data, i * pm.wpl, j) THEN r
                 ELSE LET val == GET_DATA_BYTE(pg.data, (y + i) * pg.wpl, x + j)
                      IN  [sumave |-> r.sumave + (IF type # "L_ROOT_MEAN_SQUARE" THEN val ELSE 0),
                           summs |-> r.summs + (IF type # "L_MEAN_ABSVAL" THEN val * val ELSE 0),
                           count |-> r.count + 1]

\* the test on count taken as never true
NoSamplesNever(count) == FALSE

\* if (count == 0)
NoSamples(count) == count = 0

\* pixGetAverageMasked(pixs, pixm, x, y, factor, type, &val) on an image
\* without colormap: the value returned and what val holds afterwards (val0 is
\* what it held before)
pixGetAverageMasked(hp, pixs, pixm, x, y, factor, type, val0) ==
    IF pixs = NullHandle THEN [ret |-> 1, val |-> val0]
    ELSE IF hp[pixs].d # 8 THEN [ret |-> 1, val |-> val0]
    ELSE IF pixm # NullHandle /\ hp[pixm].d # 1 THEN [ret |-> 1, val |-> val0]
    ELSE IF factor < 1 THEN [ret |-> 1, val |-> val0]
    ELSE IF type \notin StatTypes THEN [ret |-> 1, val |-> val0]
    ELSE LET s == IF pixm = NullHandle
                  THEN AverageLoop(hp[pixs], factor, type, 0)
                  ELSE AverageMaskedLoop(hp[pixs], hp[pixm], x, y, factor, type, 0)
             \* var = meansq - ave * ave over the common denominator count^2
             varnum == s.summs * s.count - s.sumave * s.sumave
         IN  IF NoSamples(s.count) THEN [ret |-> 1, val |-> ZeroVal]
             ELSE IF type = "L_MEAN_ABSVAL"
             THEN [ret |-> 0, val |-> [sqrt |-> FALSE, num |-> s.sumave, den |-> s.count]]
             ELSE IF type = "L_ROOT_MEAN_SQUARE"
             THEN [ret |-> 0, val |-> [sqrt |-> TRUE, num |-> s.summs, den |-> s.count]]
             ELSE IF type = "L_STANDARD_DEVIATION"
             THEN [ret |-> 0, val |-> [sqrt |-> TRUE, num |-> varnum, den |-> s.count * s.count]]
             ELSE [ret |-> 0, val |-> [sqrt |-> FALSE, num |-> varnum, den |-> s.count * s.count]]

\* the mask: with ON bits (on = 1) or all OFF (on = 0)
MkMask(w, h, d, on) ==
    IF on = 1 THEN MkPix(w, h, d, 0)
    ELSE [MkPix(w, h, d, 0) EXCEPT !.data = [k \in DOMAIN MkPix(w, h, d, 0).data |-> ZeroWord]]

InitAverage ==
    /\ \E d \in {8, 32}, w \in 1..MaxW, h \in RopHeights,
          wm \in 1..MaxW, hm \in RopHeights, dm \in {1, 8}, on \in 0..1 :
            /\ (d # 8 \/ dm # 1) => (w = 1 /\ h = 1 /\ wm = 1 /\ hm = 1 /\ on = 1)
            /\ pix = [n \in Handles |-> IF n = 1 THEN MkPix(w, h, d, 1)
                                        ELSE IF n = 2 THEN MkMask(wm, hm, dm, on)
                                        ELSE NullPix]
    /\ last = NoCall
    /\ DitherIdle
    /\ ScanIdle
    /\ NumaIdle

\* offsets that put the mask partly and wholly outside pixs
AverageOffsets == {-1, 0, MaxW}

CallGetAverageMasked ==
    /\ last.op = "none"
    /\ \E pixm \in {NullHandle, 2}, x \in AverageOffsets, y \in AverageOffsets,
          factor \in 0..2, type \in StatTypes \cup {"L_MEDIAN_VAL"} :
         LET val0 == [sqrt |-> FALSE, num |-> 7, den |-> 1]
             r == pixGetAverageMasked(pix, 1, pixm, x, y, factor, type, val0)
         IN  /\ pix' = pix
             /\ last' = [NoCall EXCEPT !.op = "average", !.pixs1 = 1, !.pixs2 = pixm,
                                       !.pre = pix, !.x = x, !.y = y, !.count = factor,
                                       !.ret = r.ret,
                                       !.val = [type |-> type, val |-> r.val]]
    /\ UNCHANGED <<ditherVars, scan, numa>>

NextAverage == CallGetAverageMasked

SpecAverage == InitAverage /\ [][NextAverage]_vars

(***************************************************************************)
(* The number array of numabasic.c.  An l_float32 that holds an integer is *)
(* kept as that integer; array is indexed from 0.                          *)
(***************************************************************************)
\* 2^24: below it every integer is an l_float32
FloatExact == ShiftOne(24)

RECURSIVE FloatUlp(_)
\* the distance between the l_float32 values around the magnitude a
FloatUlp(a) == IF a < FloatExact THEN 1 ELSE 2 * FloatUlp(a \div 2)

\* the l_float32 that an l_int32 argument is converted to: the nearest value
\* with 24 significant bits, ties to even
ToFloat(v) ==
    LET a == IF v < 0 THEN -v ELSE v
        u == FloatUlp(a)
        q == a \div u
        r == a % u
        m == IF 2 * r < u THEN q
             ELSE IF 2 * r > u THEN q + 1
             ELSE IF q % 2 = 0 THEN q ELSE q + 1
    IN  IF v < 0 THEN -(m * u) ELSE m * u

INITIAL_PTR_ARRAYSIZE == 50

numaCreate(n) ==
    LET size == IF n <= 0 THEN INITIAL_PTR_ARRAYSIZE ELSE n
    IN  [made |-> TRUE, n |-> 0, nalloc |-> size, array |-> [i \in 0..(size - 1) |-> 0]]

\* numaExtendArray: the array reallocated at twice the size, the new half zero
numaExtendArray(o) ==
    [o EXCEPT !.array = [i \in 0..(2 * o.nalloc - 1) |-> IF i < o.nalloc THEN o.array[i] ELSE 0],
              !.nalloc = 2 * o.nalloc]

\* the test before a write at index n taken as n > nalloc
NumaFullLate(o) == o.n > o.nalloc

\* if (n >= na->nalloc)
NumaFull(o) == o.n >= o.nalloc

numaAddNumber(o, val) ==
    LET e == IF NumaFull(o) THEN numaExtendArray(o) ELSE o
    IN  [obj |-> [e EXCEPT !.array[o.n] = val, !.n = o.n + 1], ret |-> 0]

\* the loop for (i = n; i > index; i--) array[i] = array[i - 1]
RECURSIVE ShiftUp(_, _, _)
ShiftUp(array, i, index) ==
    IF i > index THEN ShiftUp([array EXCEPT ![i] = array[i - 1]], i - 1, index) ELSE array

numaInsertNumber(o, index, val) ==
    IF index < 0 \/ index > o.n THEN [obj |-> o, ret |-> 1]
    ELSE LET e == IF NumaFull(o) THEN numaExtendArray(o) ELSE o
         IN  [obj |-> [e EXCEPT !.array = [ShiftUp(e.array, o.n, index) EXCEPT ![index] = val],
                                !.n = o.n + 1],
              ret |-> 0]

\* the loop for (i = index + 1; i < n; i++) array[i - 1] = array[i]
RECURSIVE ShiftDown(_, _, _)
ShiftDown(array, i, n) ==
    IF i < n THEN ShiftDown([array EXCEPT ![i - 1] = array[i]], i + 1, n) ELSE array

numaRemoveNumber(o, index) ==
    IF index < 0 \/ index >= o.n THEN [obj |-> o, ret |-> 1]
    ELSE [obj |-> [o EXCEPT !.array = ShiftDown(o.array, index + 1, o.n), !.n = o.n - 1],
          ret |-> 0]

numaSetValue(o, index, val) ==
    IF index < 0 \/ index >= o.n THEN [obj |-> o, ret |-> 1]
    ELSE [obj |-> [o EXCEPT !.array[index] = val], ret |-> 0]

\* (l_int32)(f + 0.5): the sum is exact in double, the conversion truncates
\* toward zero
IntCast(f) == CDiv(2 * f + 1, 2)

\* numaGetIValue(na, index, &ival): the value returned and ival afterwards
numaGetIValue(o, index) ==
    IF index < 0 \/ index >= o.n THEN [ret |-> 1, ival |-> 0]
    ELSE [ret |-> 0, ival |-> IntCast(o.array[index])]

\* the longest NUMA built
MaxNuma == 3

\* integers given to the NUMA: zero, a negative one, the largest of the exact
\* range and its successor, which is not an l_float32
NumaVals == {0, -3, FloatExact, FloatExact + 1}

InitNuma ==
    /\ PixIdle
    /\ DitherIdle
    /\ ScanIdle
    /\ numa = NoNuma

NumaCalled(op, index, v, ret, ival) ==
    [op |-> op, index |-> index, val |-> v, ret |-> ret, ival |-> ival, pre |-> numa.obj]

NumaFrame == UNCHANGED <<pix, last, ditherVars, scan>>

CallNumaCreate ==
    /\ ~numa.obj.made
    /\ \E n \in {0, 1} :
         numa' = [numa EXCEPT !.obj = numaCreate(n), !.call = NumaCalled("create", 0, n, 0, 0)]
    /\ NumaFrame

CallNumaAddNumber ==
    /\ numa.obj.made /\ numa.obj.n < MaxNuma
    /\ \E v \in NumaVals :
         LET r == numaAddNumber(numa.obj, ToFloat(v))
         IN  numa' = [obj |-> r.obj, call |-> NumaCalled("add", numa.obj.n, v, r.ret, 0),
                      list |-> Append(numa.list, v)]
    /\ NumaFrame

\* the abstract list with v put before position index (from 0)
ListInsert(list, index, v) ==
    SubSeq(list, 1, index) \o <<v>> \o SubSeq(list, index + 1, Len(list))

\* the abstract list without the element at position index (from 0)
ListRemove(list, index) ==
    SubSeq(list, 1, index) \o SubSeq(list, index + 2, Len(list))

CallNumaInsertNumber ==
    /\ numa.obj.made /\ numa.obj.n < MaxNuma
    /\ \E v \in NumaVals, index \in -1..(numa.obj.n + 1) :
         LET r == numaInsertNumber(numa.obj, index, ToFloat(v))
         IN  numa' = [obj |-> r.obj, call |-> NumaCalled("insert", index, v, r.ret, 0),
                      list |-> IF index >= 0 /\ index <= numa.obj.n
                               THEN ListInsert(numa.list, index, v) ELSE numa.list]
    /\ NumaFrame

CallNumaRemoveNumber ==
    /\ numa.obj.made
    /\ \E index \in -1..numa.obj.n :
         LET r == numaRemoveNumber(numa.obj, index)
         IN  numa' = [obj |-> r.obj, call |-> NumaCalled("remove", index, 0, r.ret, 0),
                      list |-> IF index >= 0 /\ index < numa.obj.n
                               THEN ListRemove(numa.list, index) ELSE numa.list]
    /\ NumaFrame

CallNumaSetValue ==
    /\ numa.obj.made
    /\ \E v \in NumaVals, index \in -1..numa.obj.n :
         LET r == numaSetValue(numa.obj, index, ToFloat(v))
         IN  numa' = [obj |-> r.obj, call |-> NumaCalled("set", index, v, r.ret, 0),
                      list |-> IF index >= 0 /\ index < numa.obj.n
                               THEN [numa.list EXCEPT ![index + 1] = v] ELSE numa.list]
    /\ NumaFrame

CallNumaGetIValue ==
    /\ numa.obj.made
    /\ \E index \in -1..numa.obj.n :
         LET r == numaGetIValue(numa.obj, index)
         IN  numa' = [numa EXCEPT !.call = NumaCalled("get", index, 0, r.ret, r.ival)]
    /\ NumaFrame

NextNuma ==
    \/ CallNumaCreate
    \/ CallNumaAddNumber
    \/ CallNumaInsertNumber
    \/ CallNumaRemoveNumber
    \/ CallNumaSetValue
    \/ CallNumaGetIValue

SpecNuma == InitNuma /\ [][NextNuma]_vars

(***************************************************************************)
(* Point arrays for box outlines (graphics.c).  A pta is the sequence of   *)
(* its points <<x, y>>.  ptaGenerateBox draws only axis-parallel lines,    *)
(* for which the slope is exactly zero in l_float32, so ptaGenerateLine    *)
(* is evaluated with exact quotients.                                      *)
(***************************************************************************)
L_ABS(x) == IF x < 0 THEN -x ELSE x

L_SIGN(x) == IF x < 0 THEN -1 ELSE 1

ptaJoin(ptad, ptas) == ptad \o ptas

\* (l_int32)(c1 + (l_float32)i * slope + 0.5) with slope = (sign * delta) / diff
LineCoord(c1, i, sign, delta, diff) ==
    CDiv(2 * c1 * (sign * diff) + 2 * i * delta + sign * diff, 2 * (sign * diff))

ptaGenerateLine(x1, y1, x2, y2) ==
    LET getyofx == L_ABS(x2 - x1) >= L_ABS(y2 - y1)
        diff == IF getyofx THEN x2 - x1 ELSE y2 - y1
        npts == L_ABS(diff) + 1
        sign == L_SIGN(diff)
    IN  IF npts = 1
          THEN << <<x1, y1>> >>
          ELSE IF getyofx
                 THEN [k \in 1..npts |->
                          <<x1 + sign * (k - 1), LineCoord(y1, k - 1, sign, y2 - y1, diff)>>]
                 ELSE [k \in 1..npts |->
                          <<LineCoord(x1, k - 1, sign, x2 - x1, diff), y1 + sign * (k - 1)>>]

\* offset of the i-th extra line: odd i above / to the left, even i below / to the right
WideOffset(i) == IF i % 2 = 1 THEN -((i + 1) \div 2) ELSE (i + 1) \div 2

RECURSIVE WideLineLoop(_, _, _, _, _, _, _)
WideLineLoop(ptaj, x1, y1, x2, y2, width, i) ==
    IF i >= width THEN ptaj
    ELSE LET pta == IF L_ABS(x1 - x2) > L_ABS(y1 - y2)
                      THEN ptaGenerateLine(x1, y1 + WideOffset(i), x2, y2 + WideOffset(i))
                      ELSE ptaGenerateLine(x1 + WideOffset(i), y1, x2 + WideOffset(i), y2)
         IN  WideLineLoop(ptaJoin(ptaj, pta), x1, y1, x2, y2, width, i + 1)

ptaGenerateWideLine(x1, y1, x2, y2, width0) ==
    LET width == IF width0 < 1 THEN 1 ELSE width0
    IN  WideLineLoop(ptaGenerateLine(x1, y1, x2, y2), x1, y1, x2, y2, width, 1)

ptaGenerateBox(x, y, w, h, width) ==
    LET half == CDiv(width, 2)
        odd  == width % 2 = 1
        xend == IF odd THEN x + w - 1 + half ELSE x + w - 2 + half
        ytop == IF odd THEN y + 1 + half ELSE y + 0 + half
        top    == ptaGenerateWideLine(x - half, y, xend, y, width)
        bottom == ptaGenerateWideLine(x - half, y + h - 1, xend, y + h - 1, width)
        left   == ptaGenerateWideLine(x, ytop, x, y + h - 2 - half, width)
        right  == ptaGenerateWideLine(x + w - 1, ytop, x + w - 1, y + h - 2 - half, width)
    IN  ptaJoin(ptaJoin(ptaJoin(ptaJoin(<<>>, top), bottom), left), right)

MaxBox == 6

MaxLineWidth == 3

BoxOrigins == {-1, 0, 2}

InitBox ==
    /\ PixIdle
    /\ DitherIdle
    /\ ScanIdle
    /\ NumaIdle

CallGenerateBox ==
    /\ last.op = "none"
    /\ \E x \in BoxOrigins, y \in BoxOrigins, w \in 1..MaxBox, h \in 1..MaxBox,
          width \in 1..MaxLineWidth :
         last' = [NoCall EXCEPT !.op = "box", !.x = x, !.y = y,
                                !.val = [w |-> w, h |-> h, width |-> width],
                                !.ret = ptaGenerateBox(x, y, w, h, width)]
    /\ UNCHANGED <<pix, ditherVars, scan, numa>>

NextBox == CallGenerateBox

SpecBox == InitBox /\ [][NextBox]_vars

(***************************************************************************)
(* Centroids (morphapp.c).  A pixa is the sequence of the handles of its   *)
(* pix.  The l_float32 sums hold integers far below 2^24 and are kept as   *)
(* integers; the point added for a pix is (xsum / pixsum, ysum / pixsum),  *)
(* or (0, 0) when pixsum is 0, and is represented by the three sums.       *)
(***************************************************************************)
\* tab[i] of makePixelCentroidTab8
RECURSIVE makePixelCentroidTab8(_)
makePixelCentroidTab8(i) ==
    IF i = 0 THEN 0
    ELSE IF i = 1 THEN 7
    ELSE IF i < 4 THEN makePixelCentroidTab8(i - 2) + 6
    ELSE IF i < 8 THEN makePixelCentroidTab8(i - 4) + 5
    ELSE IF i < 16 THEN makePixelCentroidTab8(i - 8) + 4
    ELSE IF i < 32 THEN makePixelCentroidTab8(i - 16) + 3
    ELSE IF i < 64 THEN makePixelCentroidTab8(i - 32) + 2
    ELSE IF i < 128 THEN makePixelCentroidTab8(i - 64) + 1
    ELSE makePixelCentroidTab8(i - 128)

\* what byte number b (0 is the least significant) of word j adds to xsum
CentroidByte(word, j, b) ==
    LET byte == LowByte(Shr(word, 8 * b))
    IN  makePixelCentroidTab8(byte) + (j * 32 + 24 - 8 * b) * makePixelSumTab8(byte)

\* what word j of a line adds to rowsum and to xsum
CentroidWord(word, j) ==
    IF word # ZeroWord
    THEN [rowsum |-> WordSum(word),
          xsum |-> CentroidByte(word, j, 0) + CentroidByte(word, j, 1)
                     + CentroidByte(word, j, 2) + CentroidByte(word, j, 3)]
    ELSE [rowsum |-> 0, xsum |-> 0]

\* the 1 bpp branch: the sums after the loop over the rows
CentroidSums1(p) ==
    LET wd(i, j) == CentroidWord(p.data[i * p.wpl + j], j)
        rowsum(i) == SumUpTo([j \in 0..(p.wpl - 1) |-> wd(i, j).rowsum], p.wpl)
        xrow(i) == SumUpTo([j \in 0..(p.wpl - 1) |-> wd(i, j).xsum], p.wpl)
    IN  [xsum   |-> SumUpTo([i \in 0..(p.h - 1) |-> xrow(i)], p.h),
         ysum   |-> SumUpTo([i \in 0..(p.h - 1) |-> rowsum(i) * i], p.h),
         pixsum |-> SumUpTo([i \in 0..(p.h - 1) |-> rowsum(i)], p.h)]

\* the 8 bpp branch
CentroidSums8(p) ==
    LET val(i, j) == GET_DATA_BYTE(p.data, i * p.wpl, j)
        row(i, f(_, _)) == SumUpTo([j \in 0..(p.w - 1) |-> f(i, j)], p.w)
        xs(i, j) == val(i, j) * j
        ys(i, j) == val(i, j) * i
    IN  [xsum   |-> SumUpTo([i \in 0..(p.h - 1) |-> row(i, xs)], p.h),
         ysum   |-> SumUpTo([i \in 0..(p.h - 1) |-> row(i, ys)], p.h),
         pixsum |-> SumUpTo([i \in 0..(p.h - 1) |-> row(i, val)], p.h)]

pixaCentroids(hp, pixa) ==
    IF Len(pixa) = 0 THEN [null |-> TRUE, pts |-> <<>>]
    ELSE IF hp[pixa[1]].d # 1 /\ hp[pixa[1]].d # 8 THEN [null |-> TRUE, pts |-> <<>>]
    ELSE [null |-> FALSE,
          pts |-> [k \in 1..Len(pixa) |->
                      IF hp[pixa[1]].d = 1 THEN CentroidSums1(hp[pixa[k]])
                      ELSE CentroidSums8(hp[pixa[k]])]]

CentroidWidths == {1, MaxW, 32, 33}

CentroidDepths == {1, 2, 8}

\* the pixa handed over: none, one or two of the pix at handles 1 and 2
Pixas == {<<>>, <<1>>, <<2>>, <<1, 2>>}

InitCentroids ==
    /\ \E d \in CentroidDepths, w \in CentroidWidths, h \in 1..MaxH, p \in Pats :
            pix = [n \in Handles |-> IF n = 1 THEN MkPix(w, h, d, p)
                                     ELSE IF n = 2 THEN MkPix(MaxW, 1, d, p + 1)
                                     ELSE NullPix]
    /\ last = NoCall
    /\ DitherIdle
    /\ ScanIdle
    /\ NumaIdle

CallCentroids ==
    /\ last.op = "none"
    /\ \E pixa \in Pixas :
         /\ pix' = pix
         /\ last' = [NoCall EXCEPT !.op = "centroids", !.pre = pix, !.val = pixa,
                                   !.ret = pixaCentroids(pix, pixa)]
    /\ UNCHANGED <<ditherVars, scan, numa>>

NextCentroids == CallCentroids

SpecCentroids == InitCentroids /\ [][NextCentroids]_vars

(***************************************************************************)
(* Ascii85 (psio.c).  A byte array and a char array are sequences of       *)
(* numbers 0..255.  An l_uint32 is the pair of its 16 bit halves,          *)
(* hi * 2^16 + lo, and its arithmetic is taken modulo 2^32.                *)
(***************************************************************************)
\* the character codes the two routines name
Chr == [bang |-> 33, z |-> 122, tilde |-> 126, gt |-> 62, nl |-> 10,
        sp |-> 32, tab |-> 9, ff |-> 12, cr |-> 13, vt |-> 11]

MAX_85_LINE_COUNT == 64

Half == ShiftOne(16)

U32(hi, lo) == [hi |-> hi, lo |-> lo]

\* (w + v) modulo 2^32
AddU32(w, v) == U32((w.hi + v.hi + (w.lo + v.lo) \div Half) % Half, (w.lo + v.lo) % Half)

\* (w * 85) modulo 2^32
Mul85(w) == U32((w.hi * 85 + (w.lo * 85) \div Half) % Half, (w.lo * 85) % Half)

\* w / 85 and w % 85
DivMod85(w) ==
    LET rest == (w.hi % 85) * Half + w.lo
    IN  [q |-> U32(w.hi \div 85, rest \div 85), r |-> rest % 85]

\* (w >> (8 * n)) & 0xff
Byte(w, n) ==
    IF n = 3 THEN w.hi \div 256
    ELSE IF n = 2 THEN w.hi % 256
    ELSE IF n = 1 THEN w.lo \div 256
    ELSE w.lo % 256

\* inword after the bytes index .. index + nread - 1 were added, byte i at
\* bits 8 * (3 - i) and above
ChunkWord(inarray, index, nread) ==
    LET b(i) == IF i < nread THEN inarray[index + i + 1] ELSE 0
    IN  U32(b(0) * 256 + b(1), b(2) * 256 + b(3))

\* inword / power85[i]: the base 85 digit i of inword, which is what is left
\* of inword when the code divides by power85[i]
RECURSIVE Digit85(_, _)
Digit85(w, i) == IF i = 0 THEN DivMod85(w).r ELSE Digit85(DivMod85(w).q, i - 1)

\* the loop for (i = 4; i >= 4 - nread; i--) writing outbuf[4 - i]
RECURSIVE ChunkDigits(_, _, _)
ChunkDigits(inword, nread, i) ==
    IF i < 4 - nread THEN <<>>
    ELSE <<(Digit85(inword, i) + Chr.bang) % 256>> \o ChunkDigits(inword, nread, i - 1)

\* a zero word written as 'z' only when all four bytes were read
convertChunkToAscii85FullZ(inarray, insize, index) ==
    LET nread == L_MIN(4, insize - index)
        inword == ChunkWord(inarray, index, nread)
    IN  [eof |-> insize = index + nread,
         index |-> index + nread,
         outbuf |-> IF inword = U32(0, 0) /\ nread = 4 THEN <<Chr.z>>
                    ELSE ChunkDigits(inword, nread, 4)]

convertChunkToAscii85(inarray, insize, index) ==
    LET nread == L_MIN(4, insize - index)
        inword == ChunkWord(inarray, index, nread)
    IN  [eof |-> insize = index + nread,
         index |-> index + nread,
         outbuf |-> IF inword = U32(0, 0) THEN <<Chr.z>> ELSE ChunkDigits(inword, nread, 4)]

\* the copy of outbuf into chara from character i on, with the line breaks
RECURSIVE CopyChunk(_, _, _, _)
CopyChunk(outbuf, i, chara, linecount) ==
    IF i > Len(outbuf) THEN [chara |-> chara, linecount |-> linecount]
    ELSE IF linecount + 1 >= MAX_85_LINE_COUNT
         THEN CopyChunk(outbuf, i + 1, chara \o <<outbuf[i], Chr.nl>>, 0)
         ELSE CopyChunk(outbuf, i + 1, Append(chara, outbuf[i]), linecount + 1)

\* the element of a singleton
Only(S) == CHOOSE x \in S : TRUE

NoneEncoded == [index |-> 0, chara |-> <<>>, linecount |-> 0, eof |-> FALSE]

\* one pass of the while loop; nothing more is done after the break at eof
EncodeChunk(inarray, insize, st) ==
    LET c == convertChunkToAscii85(inarray, insize, st.index)
        o == CopyChunk(c.outbuf, 1, st.chara, st.linecount)
    IN  IF st.eof THEN st
        ELSE IF c.eof
        THEN [index |-> c.index, linecount |-> o.linecount, eof |-> TRUE,
              chara |-> (IF o.linecount # 0 THEN Append(o.chara, Chr.nl) ELSE o.chara)
                            \o <<Chr.tilde, Chr.gt, Chr.nl>>]
        ELSE [index |-> c.index, linecount |-> o.linecount, eof |-> FALSE, chara |-> o.chara]

\* the passes lo .. hi - 1 of the while loop from the state st, the range being
\* run as two halves, one after the other; the state reached by the first half
\* is handed to the second as a value
RECURSIVE EncodeLoop(_, _, _, _, _)
EncodeLoop(inarray, insize, st, lo, hi) ==
    IF hi <= lo THEN st
    ELSE IF hi = lo + 1 THEN EncodeChunk(inarray, insize, st)
    ELSE LET mid == (lo + hi) \div 2
         IN  Only({EncodeLoop(inarray, insize, x, mid, hi) :
                      x \in {EncodeLoop(inarray, insize, st, lo, mid)}})

\* the chars returned; *poutsize is their number.  The loop ends at the pass
\* that reads the last byte, pass insize / 4 at the latest.
encodeAscii85(inarray, insize) ==
    EncodeLoop(inarray, insize, NoneEncoded, 0, insize \div 4 + 1).chara

\* the bytes written at the end of data after bytecount characters of a group
DecodeTail(oword, bytecount) ==
    IF bytecount = 2
    THEN LET o == AddU32(Mul85(Mul85(Mul85(oword))), U32(255, Half - 1)) IN <<Byte(o, 3)>>
    ELSE IF bytecount = 3
    THEN LET o == AddU32(Mul85(Mul85(oword)), U32(0, Half - 1)) IN <<Byte(o, 3), Byte(o, 2)>>
    ELSE IF bytecount = 4
    THEN LET o == AddU32(Mul85(oword), U32(0, 255)) IN <<Byte(o, 3), Byte(o, 2), Byte(o, 1)>>
    ELSE <<>>

\* one pass of the loop body on the character inc; done is set by the break
DecodeChar(st, inc) ==
    LET val == (inc - Chr.bang) % 256
        o == AddU32(Mul85(st.oword), U32(0, val))
    IN  IF st.done \/ inc \in {Chr.sp, Chr.tab, Chr.nl, Chr.ff, Chr.cr, Chr.vt} THEN st
        ELSE IF val < 85
        THEN (IF st.bytecount < 4
              THEN [st EXCEPT !.bytecount = st.bytecount + 1, !.oword = o]
              ELSE [st EXCEPT !.bytecount = 0, !.oword = U32(0, 0),
                              !.outa = st.outa \o <<Byte(o, 3), Byte(o, 2), Byte(o, 1), Byte(o, 0)>>])
        ELSE IF inc = Chr.z /\ st.bytecount = 0
        THEN [st EXCEPT !.outa = st.outa \o <<0, 0, 0, 0>>]
        ELSE IF inc = Chr.tilde
        THEN [st EXCEPT !.done = TRUE, !.outa = st.outa \o DecodeTail(st.oword, st.bytecount)]
        ELSE st

NoneDecoded == [bytecount |-> 0, oword |-> U32(0, 0), outa |-> <<>>, done |-> FALSE]

\* the loop over the characters lo .. hi - 1 from the state st, the range
\* being run as two halves, one after the other; the state reached by the
\* first half is handed to the second as a value
RECURSIVE DecodeLoop(_, _, _, _)
DecodeLoop(ina, st, lo, hi) ==
    IF hi <= lo THEN st
    ELSE IF hi = lo + 1 THEN DecodeChar(st, ina[lo + 1])
    ELSE LET mid == (lo + hi) \div 2
         IN  Only({DecodeLoop(ina, x, mid, hi) : x \in {DecodeLoop(ina, st, lo, mid)}})

\* the first *poutsize bytes of the array returned
decodeAscii85(ina, insize) == DecodeLoop(ina, NoneDecoded, 0, insize).outa

MaxBytes == 5

ByteVals == {0, 1, 128, 255}

\* every short array over ByteVals, and longer ones that fill more than a line
ShortArrays == UNION {[1..n -> ByteVals] : n \in 0..MaxBytes}

LongArrays ==
    {[k \in 1..n |-> IF (k + p) % 5 = 0 THEN 255 ELSE (k * p) % 3] :
        n \in {52, 53, 104}, p \in 1..3}

InitAscii85 ==
    /\ PixIdle
    /\ DitherIdle
    /\ ScanIdle
    /\ NumaIdle

CallEncodeAscii85 ==
    /\ last.op = "none"
    /\ \E inarray \in ShortArrays \cup LongArrays :
         last' = [NoCall EXCEPT !.op = "encoded", !.val = inarray,
                                !.ret = encodeAscii85(inarray, Len(inarray))]
    /\ UNCHANGED <<pix, ditherVars, scan, numa>>

CallDecodeAscii85 ==
    /\ last.op = "encoded"
    /\ last' = [last EXCEPT !.op = "decoded",
                            !.reads = decodeAscii85(last.ret, Len(last.ret))]
    /\ UNCHANGED <<pix, ditherVars, scan, numa>>

NextAscii85 == CallEncodeAscii85 \/ CallDecodeAscii85

SpecAscii85 == InitAscii85 /\ [][NextAscii85]_vars

(***************************************************************************)
(* Properties of the boolean operations                                    *)
(***************************************************************************)
\* the operands of the call as they were before it, and its result
Src1 == last.pre[last.pixs1]
Src2 == last.pre[last.pixs2]
Result == pix[last.ret]

\* the three calling cases of pixOr, pixAnd and pixXor
DstNull == last.pixd = NullHandle
DstIsSrc1 == last.pixd # NullHandle /\ last.pixd = last.pixs1
DstIsSrc2 == last.pixd # NullHandle /\ last.pixd = last.pixs2
DstDistinct == last.pixd # NullHandle /\ last.pixd \notin {last.pixs1, last.pixs2}

Combine(op, a, b) ==
    IF op = "or" THEN a \cup b
    ELSE IF op = "and" THEN a \cap b
    ELSE (a \ b) \cup (b \ a)

InOverlap(c) == c[1] < Src2.w /\ c[2] < Src2.h

\* C1: for pixOr, pixAnd and pixXor on operands of equal depth, with pixd null,
\* pixd == pixs1 or pixd a buffer distinct from both operands, the result has the
\* width and height of pixs1, every pixel in the upper-left aligned intersection
\* of pixs1 and pixs2 is (src1 OP src2) and every other pixel is that of pixs1.
C1_BoolOpOverIntersection ==
    (/\ last.op \in {"or", "and", "xor"}
     /\ Src1.d = Src2.d
     /\ (DstNull \/ DstIsSrc1 \/ DstDistinct))
    => /\ Result.w = Src1.w /\ Result.h = Src1.h /\ Result.d = Src1.d
       /\ \A c \in Pixels(Src1) :
            GetPixel(Result, c[1], c[2]) =
                IF InOverlap(c)
                THEN Combine(last.op, GetPixel(Src1, c[1], c[2]), GetPixel(Src2, c[1], c[2]))
                ELSE GetPixel(Src1, c[1], c[2])

\* an existing pixd of another size took the result of an OR of a wide pixs1 and
\* a narrow pixs2 that changed pixs1 inside the intersection
C1_Witness ==
    /\ last.op = "or" /\ DstDistinct /\ Src1.d = Src2.d
    /\ last.pre[last.pixd].w # Src1.w
    /\ Src2.w < Src1.w
    /\ GetPixel(Result, 0, 0) # GetPixel(Src1, 0, 0)
    /\ GetPixel(Result, Src1.w - 1, 0) = GetPixel(Src1, Src1.w - 1, 0)

\* the PIX and(src1, invert(src2)) computed by pixInvert and pixAnd from the
\* operands as they were before the call
AndOfInverse ==
    LET i == pixInvert(last.pre, NullHandle, last.pixs2)
        a == pixAnd(i.hp, NullHandle, last.pixs1, i.ret)
    IN  a.hp[a.ret]

SameSize == Src1.w = Src2.w /\ Src1.h = Src2.h /\ Src1.d = Src2.d

\* C2: for operands of equal size and depth, pixSubtract(pixd, pixs1, pixs2) gives
\* an image equal in every pixel to and(src1, invert(src2)) of the operands before
\* the call, with pixd null, pixd == pixs1, pixd == pixs2 or pixd distinct.
C2_SubtractIsAndNot ==
    (last.op = "subtract" /\ SameSize) => PixEqual(Result, AndOfInverse)

\* the result overwrote pixs2, which differed from pixs1, and is neither operand
C2_Witness ==
    /\ last.op = "subtract" /\ SameSize
    /\ DstIsSrc2 /\ last.pixs1 # last.pixs2
    /\ ~PixEqual(Result, Src1) /\ ~PixEqual(Result, Src2)
    /\ \E c \in Pixels(Result) : GetPixel(Result, c[1], c[2]) # {}

(***************************************************************************)
(* Properties of pixel counting and masked painting                        *)
(***************************************************************************)
OnPixels(p) == {c \in Pixels(p) : GetPixel(p, c[1], c[2]) # {}}

\* the bits of the last word of row i of p that lie beyond the width
PaddingBits(p, i) == {k \in p.data[i * p.wpl + p.wpl - 1] : k < 32 * p.wpl - p.w}

\* C3: pixCountPixels on a 1 bpp image returns exactly the number of pixels
\* (x, y), 0 <= x < width, 0 <= y < height, whose bit is 1, for widths that are
\* multiples of 32 and widths that leave padding in the last word of a row,
\* whatever the padding bits hold.
C3_CountIsOnPixels ==
    (last.op = "count" /\ Src1.d = 1)
    => last.ret = 0 /\ last.count = Cardinality(OnPixels(Src1))

\* a count over an image of width 33 whose pixel 32 is ON and whose padding
\* bits are not all zero
C3_Witness ==
    /\ last.op = "count" /\ Src1.d = 1 /\ Src1.w = 33
    /\ GetPixel(Src1, 32, 0) # {}
    /\ PaddingBits(Src1, 0) # {}
    /\ last.count > 0

\* the mask bit that falls on pixel c of pixd when the mask origin is at (x, y)
MaskOn(c) ==
    LET m == last.pre[2]
        j == c[1] - last.x
        i == c[2] - last.y
    IN  j >= 0 /\ j < m.w /\ i >= 0 /\ i < m.h /\ GetPixel(m, j, i) # {}

\* C4: pixPaintThroughMask(pixd, pixm, x, y, val) sets to val masked to the depth
\* exactly the pixels (x + j, y + i) inside pixd whose mask bit (j, i) is 1 and
\* leaves every other pixel of pixd unchanged, for every val and depth alike.
C4_PaintExactlyUnderMask ==
    last.op = "paint"
    => /\ last.ret = 0
       /\ pix[1].w = last.pre[1].w /\ pix[1].h = last.pre[1].h /\ pix[1].d = last.pre[1].d
       /\ \A c \in Pixels(pix[1]) :
            GetPixel(pix[1], c[1], c[2]) =
                IF MaskOn(c) THEN {k \in last.val : k < pix[1].d}
                ELSE GetPixel(last.pre[1], c[1], c[2])

\* val = 0 painted into an 8 bpp pixd through a mask placed at a negative x:
\* one pixel was cleared and another, not under the mask, kept a non-zero value
C4_Witness ==
    /\ last.op = "paint" /\ pix[1].d = 8 /\ last.val = ZeroWord /\ last.x = -1
    /\ \E c \in Pixels(pix[1]) :
            MaskOn(c) /\ GetPixel(last.pre[1], c[1], c[2]) # {} /\ GetPixel(pix[1], c[1], c[2]) = {}
    /\ \E c \in Pixels(pix[1]) : ~MaskOn(c) /\ GetPixel(pix[1], c[1], c[2]) # {}

(***************************************************************************)
(* Properties of the dithering passes                                      *)
(***************************************************************************)
\* byte n of a row buffer
BufByte(buf, n) == GET_DATA_BYTE(buf, 0, n)

\* two row buffers hold the same bytes except, possibly, byte n
SameExcept(a, b, n) ==
    \A k \in 0..(4 * dcfg.wpls - 1) : k # n => BufByte(a, k) = BufByte(b, k)

AllPassesDone == dout["plain"].done /\ dout["lut"].done /\ dout["twobpp"].done

\* C5: during the dithering passes no word of the source image datas is written:
\* the source is at every moment the source as it was given.
C5_SourceNeverWritten == mem.datas = dcfg.src

\* the three passes have returned and the last pixel step before the return left
\* a row buffer that differs from the source row it was loaded from
C5_Witness ==
    /\ AllPassesDone
    /\ dcfg.h > 1
    /\ \E k \in 0..(dcfg.w - 1) :
           BufByte(mem.bufs1, k) # GET_DATA_BYTE(mem.datas, (dcfg.h - 1) * dcfg.wpls, k)
    /\ mem.datas = dcfg.src

\* the value the pixel of the last step had in the buffer of the current row,
\* and its neighbours, before the step
StepVal == BufByte(dstep.pre.bufs1, dstep.j)
RightBefore == BufByte(dstep.pre.bufs1, dstep.j + 1)
BelowBefore == BufByte(dstep.pre.bufs2, dstep.j)
DiagBefore == BufByte(dstep.pre.bufs2, dstep.j + 1)

OutBit == GET_DATA_BIT(mem.datad, dstep.i * Wpl(dcfg.w, 1), dstep.j)

InteriorPlainStep ==
    dstep.pass = "plain" /\ dstep.lastlineflag = 0 /\ dstep.j < dcfg.w - 1

\* the row buffers after subtracting (sign = -1) or adding (sign = 1) 3/8 and
\* 1/4 of e to the three neighbours, clamped to [0, 255]
Diffused(sign, e) ==
    LET cl(v) == L_MAX(0, L_MIN(255, v))
    IN  /\ mem.bufs1 = SET_DATA_BYTE(dstep.pre.bufs1, 0, dstep.j + 1,
                                     cl(RightBefore + sign * ((3 * e) \div 8)))
        /\ mem.bufs2 = SET_DATA_BYTE(
                           SET_DATA_BYTE(dstep.pre.bufs2, 0, dstep.j,
                                         cl(BelowBefore + sign * ((3 * e) \div 8))),
                           0, dstep.j + 1, cl(DiagBefore + sign * (e \div 4)))

BuffersUntouched == mem.bufs1 = dstep.pre.bufs1 /\ mem.bufs2 = dstep.pre.bufs2

\* C6: in ditherToBinaryLineLow, for a pixel j < w - 1 of a non-final row with
\* buffered value v: if v > 127 the output bit stays OFF and, only when
\* 255 - v > upperclip, 3/8 of 255 - v is subtracted from (curr, j+1) and (next, j)
\* and 1/4 from (next, j+1), clamped at 0; if v <= 127 the bit is set ON and, only
\* when v > lowerclip, 3/8 of v and 1/4 of v are added, clamped at 255; otherwise
\* no neighbour changes.
C6_InteriorPixelDiffusion ==
    InteriorPlainStep =>
        IF StepVal > 127
        THEN /\ ~OutBit
             /\ IF 255 - StepVal > dcfg.upperclip THEN Diffused(-1, 255 - StepVal)
                ELSE BuffersUntouched
        ELSE /\ OutBit
             /\ IF StepVal > dcfg.lowerclip THEN Diffused(1, StepVal)
                ELSE BuffersUntouched

\* an interior pixel binarized ON whose 3/8 share pushed the pixel below to 255
C6_Witness ==
    /\ InteriorPlainStep
    /\ StepVal <= 127 /\ StepVal > dcfg.lowerclip
    /\ BelowBefore + (3 * StepVal) \div 8 > 255
    /\ BufByte(mem.bufs2, dstep.j) = 255
    /\ BufByte(mem.bufs1, dstep.j + 1) = RightBefore + (3 * StepVal) \div 8

BothBinaryDone == dout["plain"].done /\ dout["lut"].done

Thresholded ==
    [idx \in 0..(Wpl(dcfg.w, 1) * dcfg.h - 1) |->
        {k \in WordBits :
            LET j == 32 * (idx % Wpl(dcfg.w, 1)) + 31 - k
                i == idx \div Wpl(dcfg.w, 1)
            IN  j < dcfg.w /\ GET_DATA_BYTE(dcfg.src, i * dcfg.wpls, j) < 128}]

BinaryStep == dstep.pass \in {"plain", "lut"}

\* C8 as claimed: the last column of each row and every pixel of the final row
\* never propagate into the next-row buffer; such a pixel changes at most
\* (curr, j+1), and the very last pixel changes nothing.
C8_EdgesNeverPropagateBelow ==
    (BinaryStep /\ (dstep.j = dcfg.w - 1 \/ dstep.lastlineflag = 1))
    => /\ mem.bufs2 = dstep.pre.bufs2
       /\ SameExcept(mem.bufs1, dstep.pre.bufs1, dstep.j + 1)
       /\ (dstep.j = dcfg.w - 1 /\ dstep.lastlineflag = 1) => BuffersUntouched

\* C8, amended: every pixel of the final row leaves the next-row buffer alone and
\* changes at most (curr, j+1); the very last pixel changes nothing; the last
\* column of a non-final row has no right neighbour, leaves the current-row
\* buffer alone and changes at most the pixel below it, (next, w-1).
C8_EdgePropagation ==
    BinaryStep
    => /\ (dstep.lastlineflag = 1 /\ dstep.j < dcfg.w - 1)
            => /\ mem.bufs2 = dstep.pre.bufs2
               /\ SameExcept(mem.bufs1, dstep.pre.bufs1, dstep.j + 1)
       /\ (dstep.lastlineflag = 1 /\ dstep.j = dcfg.w - 1) => BuffersUntouched
       /\ (dstep.lastlineflag = 0 /\ dstep.j = dcfg.w - 1)
            => /\ mem.bufs1 = dstep.pre.bufs1
               /\ SameExcept(mem.bufs2, dstep.pre.bufs2, dstep.j)

\* the last column of a non-final row changed the pixel below it
C8_Witness ==
    /\ BinaryStep /\ dstep.lastlineflag = 0 /\ dstep.j = dcfg.w - 1
    /\ BufByte(mem.bufs2, dstep.j) # BelowBefore

(***************************************************************************)
(* Properties of the sampled bilinear transform                            *)
(***************************************************************************)
ScanSrc == pix[scan.pixs]
ScanDst == pix[scan.pixd]

\* the call was made with arguments pixBilinearSampled accepts
ScanAccepted ==
    /\ scan.stage \in {"scan", "done"}
    /\ scan.incolor \in {L_BRING_IN_WHITE, L_BRING_IN_BLACK}
    /\ ScanSrc.d \in SampledDepths

\* C9 as claimed: with the identity coefficient vector pixBilinearSampled returns
\* an image equal to the source in every pixel, for every depth in {1,2,4,8,32}
\* and for both incolor choices.
C9_IdentityReproducesSource ==
    (scan.stage = "done" /\ ScanAccepted /\ scan.vc = IdentityVc)
    => scan.pixd # NullHandle /\ PixEqual(ScanDst, ScanSrc)

\* the background value of a destination pixel, as the claim states it
BackgroundPixel ==
    IF (ScanSrc.d = 1 /\ scan.incolor = L_BRING_IN_WHITE)
         \/ (ScanSrc.d > 1 /\ scan.incolor = L_BRING_IN_BLACK)
    THEN {}
    ELSE 0..(ScanSrc.d - 1)

\* the source coordinate of destination pixel c falls outside the source
MapsOutside(c) ==
    LET x == CDiv(2 * (scan.vc[1] * c[1] + scan.vc[2] * c[2] + scan.vc[3] * c[1] * c[2]
                        + scan.vc[4]) + Den, 2 * Den)
        y == CDiv(2 * (scan.vc[5] * c[1] + scan.vc[6] * c[2] + scan.vc[7] * c[1] * c[2]
                        + scan.vc[8]) + Den, 2 * Den)
    IN  x < 0 \/ y < 0 \/ x >= ScanSrc.w \/ y >= ScanSrc.h

\* C10: in pixBilinearSampled every destination pixel whose mapped source
\* coordinate falls outside the source keeps the background value written before
\* the scan (all bits 0 for depth 1 with white or depth > 1 with black brought
\* in, all bits 1 otherwise), and the step of the scan that visits it reads no
\* source pixel and writes nothing.
C10_OutsideKeepsBackground ==
    ScanAccepted
    => /\ \A c \in Pixels(ScanDst) :
            MapsOutside(c) => GetPixel(ScanDst, c[1], c[2]) = BackgroundPixel
       /\ (scan.step.taken /\ MapsOutside(<<scan.step.j, scan.step.i>>))
            => scan.step.read = <<>> /\ ScanDst.data = scan.step.pre

\* the scan returned an image with a pixel left at a background of all ones and
\* another pixel copied from the source with a different value
C10_Witness ==
    /\ scan.stage = "done" /\ ScanAccepted
    /\ BackgroundPixel # {}
    /\ \E c \in Pixels(ScanDst) : MapsOutside(c) /\ GetPixel(ScanDst, c[1], c[2]) = BackgroundPixel
    /\ \E c \in Pixels(ScanDst) : ~MapsOutside(c) /\ GetPixel(ScanDst, c[1], c[2]) # BackgroundPixel
    /\ scan.step.taken /\ MapsOutside(<<scan.step.j, scan.step.i>>)

(***************************************************************************)
(* Properties of the orthogonal transforms and of the inversion            *)
(***************************************************************************)
\* the image handed to the first call, as it was before it
Original == last.pre[1]

\* the second call of op has returned
Twice(op) == last.op = op /\ last.count = 2

\* C11: for every depth and any content, pixFlipLR applied twice, pixFlipTB
\* applied twice and pixRotate180 applied twice, in place or into another
\* buffer, return an image equal to the original in every pixel.
C11_FlipTwiceIsIdentity ==
    (Twice("fliplr") \/ Twice("fliptb") \/ Twice("rotate180"))
    => last.ret # NullHandle /\ PixEqual(Result, Original)

\* a left-right flip made into a new buffer and then flipped back in place, on
\* an image that the first flip changed
C11_Witness ==
    /\ Twice("fliplr") /\ last.pixd = last.pixs1 /\ last.pixs1 \notin {1, 2}
    /\ Original.w > 1
    /\ GetPixel(Original, 0, 0) # GetPixel(Original, Original.w - 1, 0)
    /\ PixEqual(Result, Original)

\* the image handed to the latest call; the transforms leave it as it was
\* unless it is also the destination
Source == pix[last.pixs1]

\* C12: pixRotate90 returns a new image of the depth of its source, as wide as
\* the source is high and as high as the source is wide; a clockwise rotation
\* (direction 1) followed by a counter-clockwise one (direction -1) returns an
\* image equal to the original; any other direction returns null.
C12_Rotate90 ==
    last.op = "rotate90" =>
        LET direction == IF last.count = 1 THEN last.x ELSE last.y
        IN  /\ direction \in {1, -1} =>
                 /\ last.ret \notin {NullHandle, 1, 2, last.pixs1}
                 /\ Result.d = Source.d
                 /\ Result.w = Source.h
                 /\ Result.h = Source.w
            /\ direction \notin {1, -1} => last.ret = NullHandle
            /\ (last.count = 2 /\ last.x = 1 /\ last.y = -1 /\ last.ret # NullHandle)
                 => PixEqual(Result, Original)

\* an image that is not square and not symmetric, rotated clockwise and back
C12_Witness ==
    /\ Twice("rotate90") /\ last.x = 1 /\ last.y = -1
    /\ Original.w = 2 /\ Original.h = 1
    /\ GetPixel(Original, 0, 0) # GetPixel(Original, 1, 0)
    /\ Source.w = 1 /\ Source.h = 2
    /\ PixEqual(Result, Original)

\* C13: for every depth and any content, pixInvert applied twice, into a new
\* buffer or in place, returns an image equal to the original in every pixel.
C13_InvertTwiceIsIdentity ==
    Twice("invert") => last.ret # NullHandle /\ PixEqual(Result, Original)

\* an inversion into a new buffer, inverted again in place, of an image with
\* pixels that are neither all zeros nor all ones
C13_Witness ==
    /\ Twice("invert") /\ last.pixd = last.pixs1 /\ last.pixs1 \notin {1, 2}
    /\ Original.d = 16
    /\ GetPixel(Original, 0, 0) \notin {{}, 0..15}
    /\ PixEqual(Result, Original)

(***************************************************************************)
(* Properties of pixThresholdPixels                                        *)
(***************************************************************************)
\* C14: pixThresholdPixels sets above to 1 if and only if the number of ON
\* pixels of the 1 bpp image, padding bits excluded, is strictly greater than
\* thresh, and to 0 otherwise, for every image size and every thresh.
C14_AboveIffCountExceeds ==
    (last.op = "threshold" /\ Src1.d = 1)
    => /\ last.ret = 0
       /\ last.count = (IF Cardinality(OnPixels(Src1)) > last.x THEN 1 ELSE 0)

\* a count equal to the threshold, on an image with padding bits that are ON
C14_Witness ==
    /\ last.op = "threshold" /\ Src1.d = 1
    /\ Cardinality(OnPixels(Src1)) = last.x
    /\ PaddingBits(Src1, 0) # {}
    /\ last.y = 1 /\ last.count = 0

\* the ON pixels of p held by the word at offset o of its data
OnInWord(p, o) == {c \in OnPixels(p) : c[2] * p.wpl + (c[1] \div 32) = o}

\* the ON pixels of p counted once the first k words read have been summed
RECURSIVE ReadSum(_, _, _)
ReadSum(p, reads, k) ==
    IF k = 0 THEN 0 ELSE Cardinality(OnInWord(p, reads[k])) + ReadSum(p, reads, k - 1)

\* the ON pixels of the rows of p above row i
OnAbove(p, i) == Cardinality({c \in OnPixels(p) : c[2] < i})

\* the words that hold pixels of row i of p
RowWords(p, i) == {i * p.wpl + j : j \in 0..(((p.w + 31) \div 32) - 1)}

\* C15 as stated: once the running sum of ON pixels has gone above thresh no
\* further image word is read.
C15_NoWordReadAfterCrossing ==
    (last.op = "threshold" /\ last.ret = 0)
    => \A k \in 1..Len(last.reads) : ReadSum(Src1, last.reads, k - 1) <= last.x

\* C15 (amended): the sum is compared with thresh after each whole row, so the
\* words read are, in order, all the words of every row whose preceding rows
\* together hold at most thresh ON pixels, and nothing of any later row; when
\* the first row alone holds more than thresh ON pixels no row after the first
\* is read.
C15_NoRowReadAfterCrossing ==
    (last.op = "threshold" /\ last.ret = 0)
    => /\ {last.reads[k] : k \in 1..Len(last.reads)}
            = UNION {RowWords(Src1, i) : i \in {r \in 0..(Src1.h - 1) :
                                                  r = 0 \/ OnAbove(Src1, r) <= last.x}}
       /\ \A k \in 1..(Len(last.reads) - 1) : last.reads[k] < last.reads[k + 1]

\* a first row of several words whose first word alone exceeds thresh: the rest
\* of the row is read, the second row is not
C15_Witness ==
    /\ last.op = "threshold" /\ last.ret = 0
    /\ Src1.h = 2 /\ Src1.wpl = 3
    /\ ReadSum(Src1, last.reads, 1) > last.x
    /\ last.x >= 0
    /\ last.reads = <<0, 1, 2>>
    /\ last.count = 1

(***************************************************************************)
(* Properties of pixGetGrayHistogram                                       *)
(***************************************************************************)
\* the value of pixel c of p as a number, for depths up to 16
PixVal(p, c) == LowByte(GetPixel(p, c[1], c[2])) + 256 * LowByte(Shr(GetPixel(p, c[1], c[2]), 8))

\* the positions whose row and column are multiples of factor
Sampled(p, factor) == {c \in Pixels(p) : c[1] % factor = 0 /\ c[2] % factor = 0}

\* the bins to look at: the first, the last, every bin that was written and
\* the bin of every pixel value of the image
BinsOfInterest(p, na) ==
    {0, na.n - 1} \cup DOMAIN na.nz \cup {PixVal(p, c) : c \in Pixels(p)}

\* C16: pixGetGrayHistogram(pixs, factor) with factor >= 1 on an image without
\* colormap returns 2^depth bins; for depths 2, 4, 8, 16 bin v is the number of
\* positions with row and column multiples of factor whose pixel value is v;
\* for depth 1 bin 0 is w * h minus the number of ON pixels and bin 1 the
\* number of ON pixels.
C16_HistogramCountsSampledPixels ==
    (last.op = "histogram" /\ last.x >= 1 /\ Src1.d \in {1, 2, 4, 8, 16})
    => /\ ~last.val.null
       /\ last.val.n = ShiftOne(Src1.d)
       /\ Src1.d # 1 =>
            \A v \in BinsOfInterest(Src1, last.val) :
                NumaGet(last.val, v)
                    = Cardinality({c \in Sampled(Src1, last.x) : PixVal(Src1, c) = v})
       /\ Src1.d = 1 =>
            /\ NumaGet(last.val, 1) = Cardinality(OnPixels(Src1))
            /\ NumaGet(last.val, 0) = Src1.w * Src1.h - Cardinality(OnPixels(Src1))

\* a 16 bpp image sampled at every second row and column, in which a value
\* occurs more often than it is sampled
C16_Witness ==
    /\ last.op = "histogram" /\ last.x = 2 /\ Src1.d = 16 /\ ~last.val.null
    /\ Src1.w >= 4 /\ Src1.h >= 3
    /\ \E v \in DOMAIN last.val.nz :
         /\ v > 255
         /\ last.val.nz[v] >= 1
         /\ last.val.nz[v] < Cardinality({c \in Pixels(Src1) : PixVal(Src1, c) = v})

(***************************************************************************)
(* Properties of pixCombineThroughMask                                     *)
(***************************************************************************)
\* pixel c of pixd is under pixel (c[1] - x, c[2] - y) of pixs and of pixm and
\* the mask bit there is ON
Covered(c) ==
    LET j == c[1] - last.x
        i == c[2] - last.y
        ps == last.pre[last.pixs1]
        pm == last.pre[last.pixs2]
    IN  /\ j >= 0 /\ j < ps.w /\ i >= 0 /\ i < ps.h
        /\ j < pm.w /\ i < pm.h
        /\ GetPixel(pm, j, i) # {}

\* the call was made with three distinct images that pass the checks
CombineAccepted ==
    /\ last.op = "combine" /\ last.pixs2 # NullHandle /\ last.pixs1 # last.pixd
    /\ last.pre[1].d = last.pre[last.pixs1].d
    /\ last.pre[1].d \in {8, 32}
    /\ last.pre[last.pixs2].d = 1

\* C17: pixCombineThroughMask with pixd and pixs of equal depth 8 or 32 and
\* pixm of 1 bpp sets pixel (x + j, y + i) of pixd to pixel (j, i) of pixs
\* exactly for the (j, i) inside pixs, inside pixm, mapped inside pixd, whose
\* mask bit is 1; every other pixel of pixd, and all of pixs and pixm, are
\* unchanged.
C17_CombineExactlyUnderMask ==
    CombineAccepted
    => /\ last.ret = 0
       /\ pix[1].w = last.pre[1].w /\ pix[1].h = last.pre[1].h /\ pix[1].d = last.pre[1].d
       /\ \A c \in Pixels(pix[1]) :
            GetPixel(pix[1], c[1], c[2])
                = IF Covered(c)
                  THEN GetPixel(last.pre[last.pixs1], c[1] - last.x, c[2] - last.y)
                  ELSE GetPixel(last.pre[1], c[1], c[2])
       /\ \A n \in Handles \ {1} : pix[n] = last.pre[n]

\* a call with an offset that leaves part of pixs outside pixd, which replaces
\* one pixel of pixd and keeps another
C17_Witness ==
    /\ CombineAccepted /\ last.x = 1 /\ last.y = -1
    /\ \E c \in Pixels(pix[1]) :
         Covered(c) /\ GetPixel(pix[1], c[1], c[2]) # GetPixel(last.pre[1], c[1], c[2])
    /\ \E c \in Pixels(pix[1]) : ~Covered(c)
    /\ \E c \in Pixels(last.pre[last.pixs1]) : c[1] + last.x >= pix[1].w

(***************************************************************************)
(* Properties of the boolean operations on operands that differ in size or *)
(* in depth                                                                *)
(***************************************************************************)
\* C18: in each of the four aliasing cases of pixSubtract (pixd null, pixd ==
\* pixs1, pixd == pixs2, pixd distinct), also when pixs1 and pixs2 differ in
\* width or height, the result has the dimensions of pixs1 and its pixels
\* outside the overlap of pixs1 and pixs2 are those of pixs1.
C18_SubtractSizedBySrc1 ==
    (last.op = "subtract" /\ Src1.d = Src2.d)
    => /\ last.ret # NullHandle
       /\ Result.w = Src1.w /\ Result.h = Src1.h
       /\ \A c \in Pixels(Src1) :
            ~InOverlap(c) => GetPixel(Result, c[1], c[2]) = GetPixel(Src1, c[1], c[2])

\* C19: pixOr, pixAnd, pixXor and pixSubtract return an error result and
\* modify no buffer whenever pixs1 and pixs2 have different depths.
C19_DepthMismatchFails ==
    (last.op \in {"or", "and", "xor", "subtract"} /\ Src1.d # Src2.d)
    => last.ret = NullHandle /\ pix = last.pre

(***************************************************************************)
(* Properties of pixGetAverageMasked                                       *)
(***************************************************************************)
\* the positions of pixs that the call samples: those visited at stride factor
\* and, with a mask, lying under an ON bit of the mask placed at (x, y)
AverageSampled ==
    LET f == last.count
        ps == last.pre[1]
        pm == last.pre[2]
    IN  IF last.pixs2 = NullHandle
        THEN {c \in Pixels(ps) : c[1] % f = 0 /\ c[2] % f = 0}
        ELSE {c \in Pixels(ps) :
                 /\ c[1] - last.x >= 0 /\ c[1] - last.x < pm.w
                 /\ c[2] - last.y >= 0 /\ c[2] - last.y < pm.h
                 /\ (c[1] - last.x) % f = 0 /\ (c[2] - last.y) % f = 0
                 /\ GetPixel(pm, c[1] - last.x, c[2] - last.y) # {}}

\* the call passed the checks of its arguments
AverageAccepted ==
    /\ last.op = "average"
    /\ last.pre[1].d = 8
    /\ last.pixs2 # NullHandle => last.pre[2].d = 1
    /\ last.count >= 1
    /\ last.val.type \in StatTypes

\* C20: pixGetAverageMasked returns 1 and leaves the output value at 0.0
\* whenever no pixel is sampled, for each of the four statistic types, and
\* returns 0 whenever at least one pixel is sampled.
C20_NoSamplesIsError ==
    AverageAccepted
    => /\ AverageSampled = {} => (last.ret = 1 /\ last.val.val = ZeroVal)
       /\ AverageSampled # {} => last.ret = 0

\* a standard deviation asked under a mask that overlaps pixs only with OFF
\* bits
C20_Witness ==
    /\ AverageAccepted /\ last.val.type = "L_STANDARD_DEVIATION"
    /\ last.pixs2 = 2 /\ last.x = 0 /\ last.y = 0
    /\ OnPixels(last.pre[2]) = {}
    /\ last.ret = 1 /\ last.val.val = ZeroVal

(***************************************************************************)
(* Properties of bilinearXformSampledPt                                    *)
(***************************************************************************)
\* the transformed coordinates of the point of the last step, in units of 1/Den
StepXNum == scan.vc[1] * scan.step.j + scan.vc[2] * scan.step.i
            + scan.vc[3] * scan.step.j * scan.step.i + scan.vc[4]
StepYNum == scan.vc[5] * scan.step.j + scan.vc[6] * scan.step.i
            + scan.vc[7] * scan.step.j * scan.step.i + scan.vc[8]

\* no integer is nearer to n / Den than k
Nearest(k, n) ==
    LET dist == IF Den * k >= n THEN Den * k - n ELSE n - Den * k
    IN  2 * dist <= Den

\* C21: for every coefficient vector and every integer point, the coordinates
\* returned by bilinearXformSampledPt are the transformed coordinates rounded
\* to the nearest integer, when they are non-negative and when they are
\* negative.
C21_NearestPixel ==
    scan.step.taken => Nearest(scan.step.x, StepXNum) /\ Nearest(scan.step.y, StepYNum)

(***************************************************************************)
(* Properties of the boolean operations called with pixd == pixs2          *)
(***************************************************************************)
\* pixd is pixs2 and pixs1 is another buffer of the same size and depth
AliasedWithSrc2 ==
    /\ last.op \in {"or", "and", "xor"}
    /\ DstIsSrc2 /\ ~DstIsSrc1
    /\ SameSize

Representable(v) == ToFloat(v) = v

\* the last call was a numaGetIValue that returned 0
GotIValue == numa.call.op = "get" /\ numa.call.ret = 0

\* the integer given, by numaAddNumber, numaInsertNumber or numaSetValue, for
\* the position that the last numaGetIValue read
GivenAtIndex == numa.list[numa.call.index + 1]

\* C23: an integer v stored in a numa with numaAddNumber or numaSetValue is
\* returned unchanged by numaGetIValue at the same index, for every v that an
\* l_float32 represents exactly, zero and negative values included.
C23_IntegerRoundTrip ==
    (GotIValue /\ Representable(GivenAtIndex)) => numa.call.ival = GivenAtIndex

\* C29: after any sequence of numaAddNumber, numaInsertNumber and
\* numaRemoveNumber calls, positions 0..n-1 of the array hold exactly the
\* abstract list built by the same appends, inserts and removals, n is the
\* length of that list and never exceeds nalloc; a call with an index out of
\* range returns 1 and changes nothing.
C29_ArrayIsAbstractList ==
    numa.obj.made
    => /\ numa.obj.n <= numa.obj.nalloc
       /\ numa.obj.n = Len(numa.list)
       /\ \A i \in 0..(numa.obj.n - 1) : numa.obj.array[i] = ToFloat(numa.list[i + 1])
       /\ (numa.call.op = "insert" /\ (numa.call.index < 0 \/ numa.call.index > numa.call.pre.n))
            => (numa.call.ret = 1 /\ numa.obj = numa.call.pre)
       /\ (numa.call.op = "remove" /\ (numa.call.index < 0 \/ numa.call.index >= numa.call.pre.n))
            => (numa.call.ret = 1 /\ numa.obj = numa.call.pre)

\* an insertion between two numbers into an array that was full and was doubled
C29_Witness ==
    /\ numa.call.op = "insert" /\ numa.call.ret = 0
    /\ numa.call.index = 1 /\ numa.call.pre.n = 2
    /\ numa.call.pre.nalloc = 2 /\ numa.obj.nalloc = 4
    /\ numa.list[1] # numa.list[3] /\ numa.list[2] # numa.list[3]
    /\ numa.obj.array[2] = ToFloat(numa.list[3])

(***************************************************************************)
(* Properties of the box outline.                                          *)
(***************************************************************************)
BoxCalled == last.op = "box"

NoDuplicates(pta) == \A i, j \in 1..Len(pta) : i # j => pta[i] # pta[j]

\* C24: for every box with w >= 1 and h >= 1 and every line width >= 1, the
\* point array returned by ptaGenerateBox contains no point more than once.
C24_NoDuplicatePoints ==
    (BoxCalled /\ last.val.w >= 1 /\ last.val.h >= 1 /\ last.val.width >= 1)
        => NoDuplicates(last.ret)

\* What the construction does give: with every coordinate of the outline
\* non-negative, w > width and h > width + 1, the four wide lines are
\* disjoint.
LargeBoxNoDuplicates ==
    (/\ BoxCalled
     /\ last.x - CDiv(last.val.width, 2) >= 0
     /\ last.y - CDiv(last.val.width, 2) >= 0
     /\ last.val.w >= last.val.width + 1
     /\ last.val.h >= last.val.width + 2)
        => NoDuplicates(last.ret)

(***************************************************************************)
(* Properties of the row hand-over in the dithering passes.                *)
(***************************************************************************)
\* row i of the source as the memcpy reads it
SrcLine(i) == [k \in 0..(dcfg.wpls - 1) |-> mem.datas[i * dcfg.wpls + k]]

BufBytes == 0..(4 * dcfg.wpls - 1)

\* the pass is primed: next is a copy of source row 0
PassPrimed ==
    (dpc.pass = "none" /\ dpc'.pass # "none")
        => (dpc'.i = 0 /\ dpc'.stage = "row" /\ mem'.bufs2 = SrcLine(0))

\* row i becomes the current row: curr receives what next held, and only then
\* is next reloaded, from source row i + 1
RowHandedOver ==
    dpc.stage = "row"
        => /\ dpc'.i = dpc.i /\ dpc'.stage = "pix" /\ dpc'.j = 0
           /\ mem'.bufs1 = mem.bufs2
           /\ mem'.bufs2 = (IF dpc.i < dcfg.h - 1 THEN SrcLine(dpc.i + 1) ELSE mem.bufs2)

\* while row i is processed the rows advance by one at the end of the line, and
\* next is changed by the diffusion of pixel j only (below and diagonal)
RowProcessed ==
    dpc.stage = "pix"
        => /\ dpc'.pass = "none" \/ dpc'.i = dpc.i \/ (dpc'.i = dpc.i + 1 /\ dpc'.stage = "row")
           /\ (dpc'.pass = "none" \/ dpc'.stage = "row") => dpc.j = dcfg.w - 1
           /\ dpc'.pass = "none" => dpc.i = dcfg.h - 1
           /\ \A c \in BufBytes \ {dpc.j, dpc.j + 1} :
                  BufByte(mem'.bufs2, c) = BufByte(mem.bufs2, c)

\* C25: in each dithering pass rows are processed top to bottom, next is
\* primed with source row 0, and when row i + 1 becomes the current row curr
\* receives the content of next (source row i + 1 plus the error diffused
\* while row i was processed) before next is reloaded from the source; the
\* source is never written and no row is copied from it twice.
C25_RowHandOver ==
    [][/\ mem'.datas = mem.datas
       /\ PassPrimed
       /\ RowHandedOver
       /\ RowProcessed]_vars

\* a row that is neither the first nor the last becomes current carrying
\* diffused error, and next holds the following source row
C25_Witness ==
    /\ dpc.stage = "pix" /\ dpc.j = 0 /\ dstep = NoStep
    /\ dpc.i >= 1 /\ dpc.i < dcfg.h - 1
    /\ mem.bufs1 # SrcLine(dpc.i)
    /\ mem.bufs2 = SrcLine(dpc.i + 1)
    /\ mem.bufs2 # SrcLine(dpc.i)

(***************************************************************************)
(* Properties of the centroid sums.                                        *)
(***************************************************************************)
\* the loop of the comment: for each set bit at column j of row i,
\* xsum += j, ysum += i, pixsum++
PerPixelSums(p) ==
    LET on(k) == GetPixel(p, k % p.w, k \div p.w) # {}
        n == p.w * p.h
    IN  [xsum   |-> SumUpTo([k \in 0..(n - 1) |-> IF on(k) THEN k % p.w ELSE 0], n),
         ysum   |-> SumUpTo([k \in 0..(n - 1) |-> IF on(k) THEN k \div p.w ELSE 0], n),
         pixsum |-> SumUpTo([k \in 0..(n - 1) |-> IF on(k) THEN 1 ELSE 0], n)]

CentroidsOf1bpp ==
    last.op = "centroids" /\ ~last.ret.null /\ last.pre[last.val[1]].d = 1

\* C26: for a 1 bpp pix the table-driven word loop of pixaCentroids gives the
\* xsum, ysum and pixsum of the per-pixel loop over the columns 0..w-1, for
\* every width and whatever the padding bits beyond the width hold.
C26_WordLoopIsPerPixelLoop ==
    CentroidsOf1bpp
        => \A k \in 1..Len(last.val) :
              last.ret.pts[k] = PerPixelSums(last.pre[last.val[k]])

\* The two loops agree on every pix whose padding bits are all 0.
CentroidsAgreeOnCleanPadding ==
    CentroidsOf1bpp
        => \A k \in 1..Len(last.val) :
              (\A i \in 0..(last.pre[last.val[k]].h - 1) :
                    PaddingBits(last.pre[last.val[k]], i) = {})
                  => last.ret.pts[k] = PerPixelSums(last.pre[last.val[k]])

(***************************************************************************)
(* The sum of the bins of the gray histogram.                              *)
(***************************************************************************)
RECURSIVE SumOver(_, _)
SumOver(f, S) ==
    IF S = {} THEN 0
    ELSE LET v == CHOOSE u \in S : TRUE
         IN  f[v] + SumOver(f, S \ {v})

\* the sum of all bins of a histogram (the bins not in nz are 0)
BinSum(na) == SumOver(na.nz, DOMAIN na.nz)

CeilDiv(a, b) == (a + b - 1) \div b

SampledCount == CeilDiv(Src1.w, last.x) * CeilDiv(Src1.h, last.x)

HistogramTaken ==
    last.op = "histogram" /\ last.x >= 1 /\ Src1.d \in {1, 2, 4, 8, 16}

\* C27 as stated: for every depth in {1, 2, 4, 8, 16} and every factor >= 1
\* the bins of the histogram sum to ceil(w / factor) * ceil(h / factor).
C27_BinsSumToSampledCount ==
    HistogramTaken => (~last.val.null /\ BinSum(last.val) = SampledCount)

\* C27: for depths 2, 4, 8 and 16 and every factor >= 1 the bins of the
\* histogram sum to the number of sampled pixels,
\* ceil(w / factor) * ceil(h / factor); for depth 1 the factor is not used
\* and the two bins sum to w * h.
C27_BinsSumToTallied ==
    HistogramTaken
    => /\ ~last.val.null
       /\ Src1.d # 1 => /\ BinSum(last.val) = SampledCount
                        /\ SampledCount = Cardinality(Sampled(Src1, last.x))
       /\ Src1.d = 1 => BinSum(last.val) = Src1.w * Src1.h

\* a 1 bpp image of 5 x 3 pixels with factor 2: 15 pixels tallied, 6 sampled
C27_Witness ==
    /\ HistogramTaken /\ ~last.val.null
    /\ Src1.d = 1 /\ last.x = 2 /\ Src1.w = 5 /\ Src1.h = 3
    /\ BinSum(last.val) = 15
    /\ SampledCount = 6

(***************************************************************************)
(* Properties of the values stored into the row buffers.                   *)
(***************************************************************************)
Clamp255(v) == L_MIN(255, L_MAX(0, v))

\* the amounts the pixel of the last step propagates: a38 to the right and
\* below, a14 to the diagonal
StepAmounts ==
    IF dstep.pass = "plain" THEN PlainAmounts(StepVal)
    ELSE IF dstep.pass = "lut" THEN [a38 |-> Tab1(StepVal).tab38, a14 |-> Tab1(StepVal).tab14]
    ELSE [a38 |-> Tab2(StepVal).tab38, a14 |-> Tab2(StepVal).tab14]

\* byte c of a row buffer after the step is the byte before it, or the exact
\* sum of that byte and the amount a, clamped
StoredClamped(new, old, c, a) ==
    c \in BufBytes
        => \/ BufByte(new, c) = BufByte(old, c)
           \/ BufByte(new, c) = Clamp255(BufByte(old, c) + a)

\* the branch of the table-driven routines is chosen by the sign of tab38val:
\* in all 256 entries of both sets of tables tab14val is never of the other sign
TablesSignsAgree ==
    \A v \in 0..255 :
        /\ Tab1(v).tab38 < 0 => Tab1(v).tab14 <= 0
        /\ Tab1(v).tab38 >= 0 => Tab1(v).tab14 >= 0
        /\ Tab2(v).tab38 < 0 => Tab2(v).tab14 <= 0
        /\ Tab2(v).tab38 >= 0 => Tab2(v).tab14 >= 0

\* C28: in every dithering line routine every value stored into a row buffer
\* is the exact integer sum of the old value and the propagated amount,
\* clamped to [0, 255]; no stored byte results from 8-bit wrap-around.
C28_StoredValuesClamped ==
    /\ (dpc.pass = "none" /\ ~dout["plain"].done) => TablesSignsAgree
    /\ (dstep.pass # "none") =>
          /\ StoredClamped(mem.bufs1, dstep.pre.bufs1, dstep.j + 1, StepAmounts.a38)
          /\ StoredClamped(mem.bufs2, dstep.pre.bufs2, dstep.j, StepAmounts.a38)
          /\ StoredClamped(mem.bufs2, dstep.pre.bufs2, dstep.j + 1, StepAmounts.a14)
          /\ SameExcept(mem.bufs1, dstep.pre.bufs1, dstep.j + 1)
          /\ \A c \in BufBytes \ {dstep.j, dstep.j + 1} :
                 BufByte(mem.bufs2, c) = BufByte(dstep.pre.bufs2, c)

\* a table-driven step with negative amounts under which the right neighbour
\* is clamped at 0 and the neighbour below is lowered without clamping
C28_Witness ==
    /\ dstep.pass \in {"lut", "twobpp"}
    /\ dstep.lastlineflag = 0 /\ dstep.j < dcfg.w - 1
    /\ StepAmounts.a38 < 0 /\ StepAmounts.a14 < 0
    /\ RightBefore + StepAmounts.a38 < 0
    /\ BufByte(mem.bufs1, dstep.j + 1) = 0
    /\ BelowBefore + StepAmounts.a38 > 0
    /\ BufByte(mem.bufs2, dstep.j) = BelowBefore + StepAmounts.a38

(***************************************************************************)
(* Properties of the ascii85 round trip: last.val is the byte array given  *)
(* to encodeAscii85, last.ret its output and last.reads what decodeAscii85 *)
(* returned for that output.                                               *)
(***************************************************************************)
Decoded == last.op = "decoded"

\* C30: for every input byte array of every length (0, lengths that are not
\* a multiple of 4 and arrays containing zero bytes included), decodeAscii85
\* applied to the output of encodeAscii85 returns exactly the original bytes
\* with the original length.
C30_RoundTrip == Decoded => last.reads = last.val

\* the bytes of the last chunk of the input: none for the empty array, 1 to 4
\* otherwise
LastChunk(a) ==
    LET n == Len(a)
        first == 4 * ((n - 1) \div 4) + 1
    IN  IF n = 0 THEN <<>> ELSE SubSeq(a, first, n)

\* The round trip is exact for every non-empty array whose last chunk is
\* complete or holds a non-zero byte; otherwise the array returned is the
\* original without its last chunk followed by four zero bytes.
RoundTripButForZeroTail ==
    Decoded
    => LET c == LastChunk(last.val)
           zerotail == Len(c) < 4 /\ \A k \in 1..Len(c) : c[k] = 0
       IN  IF zerotail
           THEN last.reads = SubSeq(last.val, 1, Len(last.val) - Len(c)) \o <<0, 0, 0, 0>>
           ELSE last.reads = last.val

====
